---------------------------- MODULE Spec2Model ----------------------------
(***************************************************************************)
(* actix-htmx: the request snapshot, the response accumulator (Htmx /      *)
(* HtmxInner) and the middleware that serializes the accumulator into the  *)
(* hx-* response headers.                                                  *)
(*                                                                         *)
(* Text is modelled as a sequence of one-character strings, an inbound     *)
(* header value as a sequence of bytes (0..255), so that formatting,       *)
(* escaping, header-value validation and JSON parsing are computed and not *)
(* assumed.                                                                *)
(***************************************************************************)
EXTENDS Integers, Sequences, FiniteSets, TLC

VARIABLES
    req,          \* inbound request headers: header name -> Option<bytes>
    inner,        \* the shared HtmxInner cell of the request
    htmx,         \* the Htmx stored in the request extensions (public flags)
    res,          \* headers of the outgoing response: name -> Option<Text>
    handler_res,  \* headers the wrapped service had put on its own response
    warned,       \* header names for which the middleware logged a warning
    pc,           \* "new" | "handler" | "done" | "failed" | "panicked"
    hist,         \* per phase: the trigger_event calls made, in order
    ncalls,       \* number of accumulator calls the handler has made
    handles,      \* the results of the Htmx extractor, in the order obtained
    cells,        \* HtmxInner cells allocated by the extractor itself
    svc_result,   \* what the wrapped service returned (none while pending)
    call_result,  \* what InnerHtmxMiddleware::call returned (none while pending)
    sets,         \* the header-setting calls made, in order
    borrow,       \* RefCell state of `inner`: 0 free, -1 mutably, n > 0 shared
    flight,       \* the requests one worker has in flight, in order of arrival
    heap          \* the HtmxInner cells Htmx::new allocated for them

vars == <<req, inner, htmx, res, handler_res, warned, pc, hist, ncalls,
          handles, cells, svc_result, call_result, sets, borrow, flight, heap>>

\* the state of the requests in flight
flights == <<flight, heap>>

---------------------------------------------------------------------------
(* Bounds of the model *)

\* accumulator calls (trigger_event and setters) one handler makes
MaxCalls == 3

\* htmx request headers present on one inbound request
MaxReqHeaders == 2

\* Htmx extractions one handler makes
MaxHandles == 2

\* accumulator calls one handler of SpecCalls makes
MaxApiCalls == 2

\* requests one worker has in flight at a time
MaxFlights == 2

\* calls of reswap and redirect_with_location one handler makes
MaxSwapCalls == 2

---------------------------------------------------------------------------
(* Option<T> *)

None(dflt) == [some |-> FALSE, v |-> dflt]

Some(x) == [some |-> TRUE, v |-> x]

NoText == None(<<>>)

---------------------------------------------------------------------------
(* Text helpers *)

RECURSIVE Concat(_)
Concat(ss) == IF ss = <<>> THEN <<>> ELSE Head(ss) \o Concat(Tail(ss))

\* String::pop: removes the last character, nothing on an empty string
pop(s) == IF s = <<>> THEN <<>> ELSE SubSeq(s, 1, Len(s) - 1)

\* char::is_whitespace, on the characters the model uses
IsWhitespace(c) == c \in {" ", "\t", "\n", "\r"}

RECURSIVE trim_start(_)
trim_start(s) ==
    IF s # <<>> /\ IsWhitespace(Head(s)) THEN trim_start(Tail(s)) ELSE s

RECURSIVE trim_end(_)
trim_end(s) ==
    IF s # <<>> /\ IsWhitespace(s[Len(s)]) THEN trim_end(pop(s)) ELSE s

\* str::trim
trim(s) == trim_end(trim_start(s))

\* str::starts_with(char)
starts_with(s, c) == s # <<>> /\ Head(s) = c

---------------------------------------------------------------------------
(* serde_json::Value, as far as TriggerPayload's constructors produce it.   *)
(* Every value carries all fields so that values of different kinds can be *)
(* compared: t is the variant, b / n / s / m its content.                  *)

JNull == [t |-> "null", b |-> FALSE, n |-> 0, s |-> <<>>, m |-> <<>>]

JBool(x) == [t |-> "bool", b |-> x, n |-> 0, s |-> <<>>, m |-> <<>>]

JNumber(x) == [t |-> "num", b |-> FALSE, n |-> x, s |-> <<>>, m |-> <<>>]

JString(x) == [t |-> "str", b |-> FALSE, n |-> 0, s |-> x, m |-> <<>>]

\* members: a sequence of [k |-> Text, v |-> Value], in the map's order
JObject(members) == [t |-> "obj", b |-> FALSE, n |-> 0, s |-> <<>>, m |-> members]

Digits == <<"0", "1", "2", "3", "4", "5", "6", "7", "8", "9">>

\* itoa of a non-negative integer
RECURSIVE NumberText(_)
NumberText(x) ==
    IF x < 10 THEN <<Digits[x + 1]>>
    ELSE NumberText(x \div 10) \o <<Digits[(x % 10) + 1]>>

\* serde_json's escape of one character inside a string
EscapeChar(c) ==
    CASE c = "\"" -> <<"\\", "\"">>
      [] c = "\\" -> <<"\\", "\\">>
      [] c = "\n" -> <<"\\", "n">>
      [] c = "\r" -> <<"\\", "r">>
      [] c = "\t" -> <<"\\", "t">>
      [] OTHER -> <<c>>

RECURSIVE EscapeText(_)
EscapeText(s) ==
    IF s = <<>> THEN <<>> ELSE EscapeChar(Head(s)) \o EscapeText(Tail(s))

QuotedText(s) == <<"\"">> \o EscapeText(s) \o <<"\"">>

\* serde_json::to_string(&Value): the compact form
RECURSIVE to_string(_)
RECURSIVE MembersText(_)
MembersText(ms) ==
    IF ms = <<>> THEN <<>>
    ELSE QuotedText(Head(ms).k) \o <<":">> \o to_string(Head(ms).v)
         \o (IF Len(ms) > 1 THEN <<",">> ELSE <<>>) \o MembersText(Tail(ms))

to_string(val) ==
    CASE val.t = "null" -> <<"n", "u", "l", "l">>
      [] val.t = "bool" -> IF val.b THEN <<"t", "r", "u", "e">>
                           ELSE <<"f", "a", "l", "s", "e">>
      [] val.t = "num" -> NumberText(val.n)
      [] val.t = "str" -> QuotedText(val.s)
      [] val.t = "obj" -> <<"{">> \o MembersText(val.m) \o <<"}">>

---------------------------------------------------------------------------
(* TriggerPayload (trigger_payload.rs) *)

from_value(val) == [inner |-> val]

text(s) == from_value(JString(s))

boolean(x) == from_value(JBool(x))

number(x) == from_value(JNumber(x))

json(val) == from_value(val)

as_json_value(p) == p.inner

NoPayload == None(from_value(JNull))

\* The string process_trigger_header receives for one payload.  The
\* middleware takes IndexMap<String, Option<String>> and tells a JSON payload
\* from a text payload by its leading '{': a text payload arrives as the text
\* itself, a structured payload as its JSON text.
payload_string(p) ==
    IF ~p.some THEN NoText
    ELSE LET val == as_json_value(p.v)
         IN  IF val.t = "str" THEN Some(val.s) ELSE Some(to_string(val))

---------------------------------------------------------------------------
(* IndexMap<K, V>: a sequence of entries [k, v] with distinct keys *)

Keys(map) == [i \in 1..Len(map) |-> map[i].k]

contains_key(map, key) == \E i \in 1..Len(map) : map[i].k = key

get_index_of(map, key) == CHOOSE i \in 1..Len(map) : map[i].k = key

get(map, key) == map[get_index_of(map, key)].v

\* an insert that keeps the value a key already has
insert_keeping_first(map, key, value) ==
    IF contains_key(map, key) THEN map
    ELSE Append(map, [k |-> key, v |-> value])

\* a map that moves a rewritten key to the end (remove, then push)
insert_moving_to_end(map, key, value) ==
    Append(SelectSeq(map, LAMBDA e : e.k # key), [k |-> key, v |-> value])

\* IndexMap::insert: a new key is appended, an existing key keeps its place
\* and has its value replaced
insert(map, key, value) ==
    IF contains_key(map, key)
    THEN [map EXCEPT ![get_index_of(map, key)].v = value]
    ELSE Append(map, [k |-> key, v |-> value])

is_empty(map) == Len(map) = 0

---------------------------------------------------------------------------
(* Header catalog (headers.rs) *)

HX_REQUEST == "hx-request"

HX_BOOSTED == "hx-boosted"

HX_CURRENT_URL == "hx-current-url"

HX_HISTORY_RESTORE_REQUEST == "hx-history-restore-request"

HX_PROMPT == "hx-prompt"

HX_TARGET == "hx-target"

HX_TRIGGER_REQ == "hx-trigger"

HX_TRIGGER_NAME == "hx-trigger-name"

RequestHeaders ==
    {HX_REQUEST, HX_BOOSTED, HX_CURRENT_URL, HX_HISTORY_RESTORE_REQUEST,
     HX_PROMPT, HX_TARGET, HX_TRIGGER_REQ, HX_TRIGGER_NAME}

HX_PUSH_URL == "hx-push-url"

HX_LOCATION == "hx-location"

HX_REDIRECT == "hx-redirect"

HX_REFRESH == "hx-refresh"

HX_TRIGGER == "hx-trigger"

HX_TRIGGER_AFTER_SETTLE == "hx-trigger-after-settle"

HX_TRIGGER_AFTER_SWAP == "hx-trigger-after-swap"

HX_RESWAP == "hx-reswap"

HX_RETARGET == "hx-retarget"

HX_RESELECT == "hx-reselect"

HX_REPLACE_URL == "hx-replace-url"

ResponseHeaders ==
    {HX_PUSH_URL, HX_LOCATION, HX_REDIRECT, HX_REFRESH, HX_TRIGGER,
     HX_TRIGGER_AFTER_SETTLE, HX_TRIGGER_AFTER_SWAP, HX_RESWAP, HX_RETARGET,
     HX_RESELECT, HX_REPLACE_URL}

---------------------------------------------------------------------------
(* http::HeaderValue and HeaderName, as the crate's calls behave *)

\* HeaderValue::to_str: Ok only if every byte is visible ASCII or a tab
is_visible_ascii(b) == (b >= 32 /\ b < 127) \/ b = 9

\* a decoding that takes every byte string for text
to_str_unchecked(bytes) == [ok |-> TRUE, v |-> bytes]

to_str(bytes) ==
    IF \A i \in 1..Len(bytes) : is_visible_ascii(bytes[i])
    THEN [ok |-> TRUE, v |-> bytes]
    ELSE [ok |-> FALSE, v |-> <<>>]

\* <bool as FromStr>::from_str: "true" and "false" alone parse
parse_bool(str) ==
    CASE str = <<116, 114, 117, 101>> -> [ok |-> TRUE, v |-> TRUE]
      [] str = <<102, 97, 108, 115, 101>> -> [ok |-> TRUE, v |-> FALSE]
      [] OTHER -> [ok |-> FALSE, v |-> FALSE]

\* a character HeaderValue::from_str refuses: a control character but tab
IsControl(c) == c \in {"\n", "\r"}

\* HeaderValue::from_str
HeaderValue_from_str(s) ==
    IF \E i \in 1..Len(s) : IsControl(s[i])
    THEN [ok |-> FALSE, v |-> <<>>]
    ELSE [ok |-> TRUE, v |-> s]

\* str::parse::<HeaderName>: the names of the catalog are lower-case tokens
HeaderName_parse(key) ==
    IF key \in ResponseHeaders THEN [ok |-> TRUE, v |-> key]
    ELSE [ok |-> FALSE, v |-> ""]

---------------------------------------------------------------------------
(* Request snapshot (htmx.rs) *)

NoBytes == None(<<>>)

\* a flag that is true whenever its header is present
as_bool_if_present(header) == header.some

\* AsBool for Option<&HeaderValue>
as_bool(header) ==
    IF header.some
    THEN LET h == to_str(header.v)
         IN  IF h.ok
             THEN LET parsed == parse_bool(h.v)
                  IN  IF parsed.ok THEN parsed.v ELSE FALSE
             ELSE FALSE
    ELSE FALSE

\* the bytes handed out without the to_str check
as_option_string_unchecked(header) ==
    IF header.some THEN Some(header.v) ELSE NoBytes

\* AsOptionString for Option<&HeaderValue>
as_option_string(header) ==
    IF header.some
    THEN LET h == to_str(header.v)
         IN  IF h.ok THEN Some(h.v) ELSE NoBytes
    ELSE NoBytes

\* enum DataType
DataType_Bool(x) == [kind |-> "Bool", b |-> x, s |-> NoBytes]

DataType_String(x) == [kind |-> "String", b |-> FALSE, s |-> x]

Phases == {"Standard", "AfterSettle", "AfterSwap"}

EmptyInner ==
    [standard_triggers |-> <<>>,
     after_settle_triggers |-> <<>>,
     after_swap_triggers |-> <<>>,
     response_headers |-> <<>>,
     request_headers |-> <<>>,
     simple_trigger |-> [x \in {} |-> TRUE]]

\* HtmxInner::new
HtmxInner_new(r) ==
    [EmptyInner EXCEPT !.request_headers =
        << [k |-> HX_REQUEST, v |-> DataType_Bool(as_bool(r[HX_REQUEST]))],
           [k |-> HX_BOOSTED, v |-> DataType_Bool(as_bool(r[HX_BOOSTED]))],
           [k |-> HX_CURRENT_URL,
            v |-> DataType_String(as_option_string(r[HX_CURRENT_URL]))],
           [k |-> HX_HISTORY_RESTORE_REQUEST,
            v |-> DataType_Bool(as_bool(r[HX_HISTORY_RESTORE_REQUEST]))],
           [k |-> HX_PROMPT,
            v |-> DataType_String(as_option_string(r[HX_PROMPT]))],
           [k |-> HX_TARGET,
            v |-> DataType_String(as_option_string(r[HX_TARGET]))],
           [k |-> HX_TRIGGER_REQ,
            v |-> DataType_String(as_option_string(r[HX_TRIGGER_REQ]))],
           [k |-> HX_TRIGGER_NAME,
            v |-> DataType_String(as_option_string(r[HX_TRIGGER_NAME]))] >>]

get_bool_header(in, header_name) ==
    IF contains_key(in.request_headers, header_name)
    THEN LET data_type == get(in.request_headers, header_name)
         IN  IF data_type.kind = "Bool" THEN data_type.b ELSE FALSE
    ELSE FALSE

get_string_header(in, header_name) ==
    IF contains_key(in.request_headers, header_name)
    THEN LET data_type == get(in.request_headers, header_name)
         IN  IF data_type.kind = "String" THEN data_type.s ELSE NoBytes
    ELSE NoBytes

\* Htmx::from_inner: the public flags are copied out of the cell
from_inner(in) ==
    [is_htmx |-> get_bool_header(in, HX_REQUEST),
     boosted |-> get_bool_header(in, HX_BOOSTED),
     history_restore_request |-> get_bool_header(in, HX_HISTORY_RESTORE_REQUEST)]

NoHtmx ==
    None([is_htmx |-> FALSE, boosted |-> FALSE, history_restore_request |-> FALSE])

current_url == get_string_header(inner, HX_CURRENT_URL)

prompt == get_string_header(inner, HX_PROMPT)

target == get_string_header(inner, HX_TARGET)

trigger == get_string_header(inner, HX_TRIGGER_REQ)

trigger_name == get_string_header(inner, HX_TRIGGER_NAME)

---------------------------------------------------------------------------
(* Response accumulator (htmx.rs) *)

\* a missing trigger type taken as AfterSettle
unwrap_or_after_settle(opt, dflt) == IF opt.some THEN opt.v ELSE "AfterSettle"

\* Option::unwrap_or
unwrap_or(opt, dflt) == IF opt.some THEN opt.v ELSE dflt

\* RefCell::borrow_mut succeeds on a cell that is not borrowed at all
try_borrow_mut(b) == [ok |-> b = 0, b |-> IF b = 0 THEN -1 ELSE b]

\* RefCell::borrow succeeds on a cell that is not mutably borrowed
try_borrow(b) == [ok |-> b >= 0, b |-> IF b >= 0 THEN b + 1 ELSE b]

\* a RefMut that is never dropped
forget_RefMut(b) == b

\* the RefMut goes out of scope when the method returns
drop_RefMut(b) == b + 1

NoType == None("Standard")

hm_insert(map, key, value) ==
    [x \in DOMAIN map \cup {key} |-> IF x = key THEN value ELSE map[x]]

\* the flag following the last event, not the first payload
mark_payload_of_last_event(simple_trigger, payload, trigger_type) ==
    hm_insert(simple_trigger, trigger_type, ~payload.some)

\* trigger_event, lines 305-307: a payload switches the phase to JSON mode
mark_payload(simple_trigger, payload, trigger_type) ==
    IF payload.some THEN hm_insert(simple_trigger, trigger_type, FALSE)
    ELSE simple_trigger

\* an insert that starts the phase's map again with the new event
insert_trigger_replacing(in, trigger_type, name, payload) ==
    CASE trigger_type = "Standard" ->
           [in EXCEPT !.standard_triggers = <<[k |-> name, v |-> payload]>>]
      [] trigger_type = "AfterSettle" ->
           [in EXCEPT !.after_settle_triggers = <<[k |-> name, v |-> payload]>>]
      [] trigger_type = "AfterSwap" ->
           [in EXCEPT !.after_swap_triggers = <<[k |-> name, v |-> payload]>>]

\* one map for the events of all phases
insert_trigger_into_standard(in, trigger_type, name, payload) ==
    [in EXCEPT !.standard_triggers = insert(@, name, payload)]

\* every event also lands in the Standard map
insert_trigger_also_standard(in, trigger_type, name, payload) ==
    CASE trigger_type = "Standard" ->
           [in EXCEPT !.standard_triggers = insert(@, name, payload)]
      [] trigger_type = "AfterSettle" ->
           [in EXCEPT !.after_settle_triggers = insert(@, name, payload),
                      !.standard_triggers = insert(@, name, payload)]
      [] trigger_type = "AfterSwap" ->
           [in EXCEPT !.after_swap_triggers = insert(@, name, payload),
                      !.standard_triggers = insert(@, name, payload)]

\* trigger_event, lines 309-315: the insert into the phase's map
insert_trigger(in, trigger_type, name, payload) ==
    CASE trigger_type = "Standard" ->
           [in EXCEPT !.standard_triggers = insert(@, name, payload)]
      [] trigger_type = "AfterSettle" ->
           [in EXCEPT !.after_settle_triggers = insert(@, name, payload)]
      [] trigger_type = "AfterSwap" ->
           [in EXCEPT !.after_swap_triggers = insert(@, name, payload)]

\* Htmx::get_triggers on the borrowed HtmxInner
get_triggers_of(in, trigger_type) ==
    CASE trigger_type = "Standard" -> in.standard_triggers
      [] trigger_type = "AfterSettle" -> in.after_settle_triggers
      [] trigger_type = "AfterSwap" -> in.after_swap_triggers

get_triggers(trigger_type) == get_triggers_of(inner, trigger_type)

\* Htmx::is_simple_trigger on the borrowed HtmxInner
is_simple_trigger_of(in, trigger_type) ==
    IF trigger_type \in DOMAIN in.simple_trigger
    THEN in.simple_trigger[trigger_type]
    ELSE TRUE

is_simple_trigger(trigger_type) == is_simple_trigger_of(inner, trigger_type)

get_response_headers == inner.response_headers

---------------------------------------------------------------------------
(* Serializer (middleware.rs) *)

\* the IndexMap<String, Option<String>> handed to process_trigger_header
trigger_strings(map) ==
    [i \in 1..Len(map) |-> [k |-> map[i].k, v |-> payload_string(map[i].v)]]

\* one iteration of trigger_json's for_each, lines 124-134
trigger_json_entry(key, value) ==
    IF value.some
    THEN IF starts_with(trim(value.v), "{")
         THEN <<"\"">> \o key \o <<"\"", ":", " ">> \o value.v \o <<",">>
         ELSE <<"\"">> \o key \o <<"\"", ":", " ", "\"">> \o value.v
              \o <<"\"", ",">>
    ELSE <<"\"">> \o key \o <<"\"", ":", " ", "n", "u", "l", "l", ",">>

RECURSIVE trigger_json_entries(_)
trigger_json_entries(trigger_map) ==
    IF trigger_map = <<>> THEN <<>>
    ELSE trigger_json_entry(Head(trigger_map).k, Head(trigger_map).v)
         \o trigger_json_entries(Tail(trigger_map))

trigger_json(trigger_map) ==
    pop(<<"{">> \o trigger_json_entries(trigger_map)) \o <<"}">>

RECURSIVE simple_header_entries(_)
simple_header_entries(trigger_map) ==
    IF trigger_map = <<>> THEN <<>>
    ELSE Head(trigger_map).k \o <<",">>
         \o simple_header_entries(Tail(trigger_map))

\* the comma list without the pop of its last comma
simple_header_keeping_comma(trigger_map) == simple_header_entries(trigger_map)

simple_header(trigger_map) == pop(simple_header_entries(trigger_map))

\* the header also written for an empty map
process_trigger_header_unguarded(r, header_name, trigger_map, simple) ==
    LET triggers == IF simple THEN pop(simple_header_entries(trigger_map))
                    ELSE pop(<<"{">> \o trigger_json_entries(trigger_map)) \o <<"}">>
    IN  [r EXCEPT !.headers[header_name] = Some(triggers)]

\* r is the response being built: [headers, warned]
process_trigger_header(r, header_name, trigger_map, simple) ==
    IF is_empty(trigger_map) THEN r
    ELSE LET triggers == IF simple THEN simple_header(trigger_map)
                         ELSE trigger_json(trigger_map)
             value == HeaderValue_from_str(triggers)
         IN  IF value.ok
             THEN [r EXCEPT !.headers[header_name] = Some(value.v)]
             ELSE [r EXCEPT !.warned = @ \cup {header_name}]

\* an iteration that leaves a header the response already has
write_response_header_keeping_existing(r, key, value) ==
    LET name == HeaderName_parse(key)
        val == HeaderValue_from_str(value)
    IN  IF name.ok /\ val.ok /\ ~r.headers[name.v].some
        THEN [r EXCEPT !.headers[name.v] = Some(val.v)]
        ELSE r

\* one iteration over the flat map, lines 190-201
write_response_header(r, key, value) ==
    LET name == HeaderName_parse(key)
        val == HeaderValue_from_str(value)
    IN  IF name.ok
        THEN IF val.ok
             THEN [r EXCEPT !.headers[name.v] = Some(val.v)]
             ELSE [r EXCEPT !.warned = @ \cup {key}]
        ELSE [r EXCEPT !.warned = @ \cup {key}]

\* a loop that ends at the first entry it cannot write
RECURSIVE write_response_headers_until_failure(_, _)
write_response_headers_until_failure(r, response_headers) ==
    IF response_headers = <<>> THEN r
    ELSE LET r1 == write_response_header(r, Head(response_headers).k,
                                         Head(response_headers).v)
         IN  IF r1.warned # r.warned THEN r1
             ELSE write_response_headers_until_failure(r1, Tail(response_headers))

RECURSIVE write_response_headers(_, _)
write_response_headers(r, response_headers) ==
    IF response_headers = <<>> THEN r
    ELSE write_response_headers(
             write_response_header(r, Head(response_headers).k,
                                   Head(response_headers).v),
             Tail(response_headers))

\* a middleware that gives up at the first header it cannot write
serialize_inner_until_warning(r0, in) ==
    LET r1 == process_trigger_header(r0, HX_TRIGGER,
                  trigger_strings(get_triggers_of(in, "Standard")),
                  is_simple_trigger_of(in, "Standard"))
        r2 == IF r1.warned # {} THEN r1
              ELSE process_trigger_header(r1, HX_TRIGGER_AFTER_SETTLE,
                  trigger_strings(get_triggers_of(in, "AfterSettle")),
                  is_simple_trigger_of(in, "AfterSettle"))
        r3 == IF r2.warned # {} THEN r2
              ELSE process_trigger_header(r2, HX_TRIGGER_AFTER_SWAP,
                  trigger_strings(get_triggers_of(in, "AfterSwap")),
                  is_simple_trigger_of(in, "AfterSwap"))
    IN  IF r3.warned # {} THEN r3
        ELSE write_response_headers(r3, in.response_headers)

\* the body of the async block after the service's response arrived,
\* lines 119-204
serialize_inner(r0, in) ==
    LET r1 == process_trigger_header(r0, HX_TRIGGER,
                  trigger_strings(get_triggers_of(in, "Standard")),
                  is_simple_trigger_of(in, "Standard"))
        r2 == process_trigger_header(r1, HX_TRIGGER_AFTER_SETTLE,
                  trigger_strings(get_triggers_of(in, "AfterSettle")),
                  is_simple_trigger_of(in, "AfterSettle"))
        r3 == process_trigger_header(r2, HX_TRIGGER_AFTER_SWAP,
                  trigger_strings(get_triggers_of(in, "AfterSwap")),
                  is_simple_trigger_of(in, "AfterSwap"))
    IN  write_response_headers(r3, in.response_headers)

\* a middleware that reads the accumulator as it was when the service was
\* called
serialize_before_handler(r0) == serialize_inner(r0, HtmxInner_new(req))

\* the same for the request of the single-request specifications: the Htmx
\* of the request extensions (line 170) and its cell
serialize(r0) == IF htmx.some THEN serialize_inner(r0, inner) ELSE r0

---------------------------------------------------------------------------
(* Texts the handlers of the model use *)

event1 == <<"e", "v", "e", "n", "t", "1">>

event2 == <<"e", "v", "e", "n", "t", "2">>

message == <<"m", "e", "s", "s", "a", "g", "e">>

status == <<"s", "t", "a", "t", "u", "s">>

deleted == <<"d", "e", "l", "e", "t", "e", "d">>

\* a text holding a double quote
quote_text == <<"a", "\"">>

items == <<"/", "i", "t", "e", "m", "s">>

\* "true"
true_bytes == <<116, 114, 117, 101>>

NoHeaders == [h \in RequestHeaders |-> NoBytes]

NoResponseHeaders == [h \in ResponseHeaders |-> NoText]

\* what a handler may already have put on its response
HandlerResponses ==
    {NoResponseHeaders,
     [NoResponseHeaders EXCEPT ![HX_TRIGGER] = Some(<<"h">>)],
     [NoResponseHeaders EXCEPT ![HX_REDIRECT] = Some(<<"h">>)]}

Names == {event1, event2}

Payloads == {NoPayload, Some(text(deleted)), Some(text(quote_text))}

TriggerTypes == {NoType} \cup {Some(p) : p \in Phases}

Paths == {items}

Requests == {NoHeaders, [NoHeaders EXCEPT ![HX_REQUEST] = Some(true_bytes)]}

---------------------------------------------------------------------------
(* The request's life *)

\* Result<ServiceResponse<B>, Error>: the response's status or the error
Ok(status_code) == [ok |-> TRUE, status |-> status_code, err |-> <<>>]

Err(e) == [ok |-> FALSE, status |-> 0, err |-> e]

NoResult == None(Err(<<>>))

\* the error a failing wrapped service returns
service_error == <<"e", "r", "r">>

InitWith(requests) ==
    /\ req \in requests
    /\ inner = EmptyInner
    /\ htmx = NoHtmx
    /\ res = NoResponseHeaders
    /\ handler_res = NoResponseHeaders
    /\ warned = {}
    /\ pc = "new"
    /\ hist = [p \in Phases |-> <<>>]
    /\ ncalls = 0
    /\ handles = <<>>
    /\ cells = <<>>
    /\ svc_result = NoResult
    /\ call_result = NoResult
    /\ sets = <<>>
    /\ borrow = 0
    /\ flight = <<>>
    /\ heap = <<>>

Init == InitWith(Requests)

\* InnerHtmxMiddleware::call up to self.service.call(req): Htmx::new and
\* the insert into the request extensions
call ==
    /\ pc = "new"
    /\ inner' = HtmxInner_new(req)
    /\ htmx' = Some(from_inner(HtmxInner_new(req)))
    /\ pc' = "handler"
    /\ UNCHANGED flights
    /\ UNCHANGED <<req, res, handler_res, warned, hist, ncalls, handles, cells,
                   svc_result, call_result, sets, borrow>>

\* a panic unwinds the request: nothing else changes
panic ==
    /\ pc' = "panicked"
    /\ UNCHANGED flights
    /\ UNCHANGED <<req, inner, htmx, res, handler_res, warned, hist, ncalls,
                   handles, cells, svc_result, call_result, sets, borrow>>

\* a trigger_event that also clears the inbound hx-trigger of the snapshot
trigger_event_inner_clearing_trigger(in, name, payload, trigger_type) ==
    LET tt == unwrap_or(trigger_type, "Standard")
        marked == [in EXCEPT !.simple_trigger = mark_payload(@, payload, tt),
                             !.request_headers =
                                 insert(@, HX_TRIGGER_REQ, DataType_String(NoBytes))]
    IN  insert_trigger(marked, tt, name, payload)

\* the body of Htmx::trigger_event on the borrowed HtmxInner, lines 302-315
trigger_event_inner(in, name, payload, trigger_type) ==
    LET tt == unwrap_or(trigger_type, "Standard")
        marked == [in EXCEPT !.simple_trigger = mark_payload(@, payload, tt)]
    IN  insert_trigger(marked, tt, name, payload)

\* Htmx::trigger_event through an Htmx whose Rc points to `cell`; the borrow
\* state is followed for the cell of the request extensions
trigger_event_on(cell, name, payload, trigger_type) ==
    /\ pc = "handler"
    /\ ncalls < MaxCalls
    /\ LET guard == IF cell = 0 THEN try_borrow_mut(borrow)
                    ELSE try_borrow_mut(0)
       IN  IF guard.ok
           THEN /\ IF cell = 0
                   THEN /\ inner' = trigger_event_inner(inner, name, payload,
                                                        trigger_type)
                        /\ cells' = cells
                        /\ borrow' = drop_RefMut(guard.b)
                   ELSE /\ cells' = [cells EXCEPT ![cell] =
                               trigger_event_inner(@, name, payload, trigger_type)]
                        /\ UNCHANGED <<inner, borrow>>
                /\ hist' = [hist EXCEPT
                       ![unwrap_or(trigger_type, "Standard")] =
                           Append(@, [name |-> name, payload |-> payload])]
                /\ ncalls' = ncalls + 1
                /\ UNCHANGED flights
                /\ UNCHANGED <<req, htmx, res, handler_res, warned, pc, handles,
                               svc_result, call_result, sets>>
           ELSE panic

\* Htmx::trigger_event through the Htmx of the request extensions
trigger_event(name, payload, trigger_type) ==
    trigger_event_on(0, name, payload, trigger_type)

\* enum SwapType
SwapTypes ==
    {"InnerHtml", "OuterHtml", "BeforeBegin", "AfterBegin", "BeforeEnd",
     "AfterEnd", "Delete", "None"}

\* the Display of SwapType with every variant in lower case
SwapType_to_string_lowercase(swap_type) ==
    CASE swap_type = "InnerHtml" -> <<"i", "n", "n", "e", "r", "h", "t", "m", "l">>
      [] swap_type = "OuterHtml" -> <<"o", "u", "t", "e", "r", "h", "t", "m", "l">>
      [] swap_type = "BeforeBegin" -> <<"b", "e", "f", "o", "r", "e", "b", "e", "g", "i", "n">>
      [] swap_type = "AfterBegin" -> <<"a", "f", "t", "e", "r", "b", "e", "g", "i", "n">>
      [] swap_type = "BeforeEnd" -> <<"b", "e", "f", "o", "r", "e", "e", "n", "d">>
      [] swap_type = "AfterEnd" -> <<"a", "f", "t", "e", "r", "e", "n", "d">>
      [] swap_type = "Delete" -> <<"d", "e", "l", "e", "t", "e">>
      [] swap_type = "None" -> <<"n", "o", "n", "e">>

\* impl fmt::Display for SwapType, through ToString::to_string
SwapType_to_string(swap_type) ==
    CASE swap_type = "InnerHtml" -> <<"i", "n", "n", "e", "r", "H", "T", "M", "L">>
      [] swap_type = "OuterHtml" -> <<"o", "u", "t", "e", "r", "H", "T", "M", "L">>
      [] swap_type = "BeforeBegin" -> <<"b", "e", "f", "o", "r", "e", "b", "e", "g", "i", "n">>
      [] swap_type = "AfterBegin" -> <<"a", "f", "t", "e", "r", "b", "e", "g", "i", "n">>
      [] swap_type = "BeforeEnd" -> <<"b", "e", "f", "o", "r", "e", "e", "n", "d">>
      [] swap_type = "AfterEnd" -> <<"a", "f", "t", "e", "r", "e", "n", "d">>
      [] swap_type = "Delete" -> <<"d", "e", "l", "e", "t", "e">>
      [] swap_type = "None" -> <<"n", "o", "n", "e">>

---------------------------------------------------------------------------
(* HxLocation (location.rs) *)

NoValue == None(JNull)

\* the characters of the keys, in the order of their code points
CharOrder ==
    <<"#", "-", ".", "/", "0", "1", "2", "3", "4", "5", "6", "7", "8", "9",
      "A", "B", "C", "D", "E", "F", "G", "H", "I", "J", "K", "L", "M", "N",
      "O", "P", "Q", "R", "S", "T", "U", "V", "W", "X", "Y", "Z",
      "a", "b", "c", "d", "e", "f", "g", "h", "i", "j", "k", "l", "m", "n",
      "o", "p", "q", "r", "s", "t", "u", "v", "w", "x", "y", "z">>

CharCode(c) == CHOOSE i \in 1..Len(CharOrder) : CharOrder[i] = c

\* Ord for String: byte-wise lexicographic
RECURSIVE str_lt(_, _)
str_lt(a, b) ==
    IF b = <<>> THEN FALSE
    ELSE IF a = <<>> THEN TRUE
    ELSE IF Head(a) = Head(b) THEN str_lt(Tail(a), Tail(b))
    ELSE CharCode(Head(a)) < CharCode(Head(b))

\* BTreeMap::insert: the entries stay sorted by key, an existing key keeps
\* its place and takes the new value
RECURSIVE btree_insert(_, _, _)
btree_insert(map, key, value) ==
    IF map = <<>> THEN <<[k |-> key, v |-> value]>>
    ELSE IF Head(map).k = key THEN <<[k |-> key, v |-> value]>> \o Tail(map)
    ELSE IF str_lt(key, Head(map).k) THEN <<[k |-> key, v |-> value]>> \o map
    ELSE <<Head(map)>> \o btree_insert(Tail(map), key, value)

\* HxLocation::new
HxLocation_new(path) ==
    [path |-> path, target |-> NoText, source |-> NoText, event |-> NoText,
     swap |-> NoText, headers |-> <<>>, values |-> NoValue,
     handler |-> NoText, select |-> NoText, push |-> NoValue,
     replace |-> NoText]

\* HxLocation::target
HxLocation_target(location, selector) ==
    [location EXCEPT !.target = Some(selector)]

\* HxLocation::source
HxLocation_source(location, selector) ==
    [location EXCEPT !.source = Some(selector)]

\* HxLocation::event
HxLocation_event(location, event) ==
    [location EXCEPT !.event = Some(event)]

\* HxLocation::swap
HxLocation_swap(location, swap) ==
    [location EXCEPT !.swap = Some(SwapType_to_string(swap))]

\* HxLocation::handler
HxLocation_handler(location, handler) ==
    [location EXCEPT !.handler = Some(handler)]

\* HxLocation::select
HxLocation_select(location, selector) ==
    [location EXCEPT !.select = Some(selector)]

\* HxLocation::header
HxLocation_header(location, name, value) ==
    [location EXCEPT !.headers = btree_insert(@, name, value)]

\* HxLocation::headers: BTreeMap::extend of the pairs, in their order
RECURSIVE HxLocation_headers(_, _)
HxLocation_headers(location, headers) ==
    IF headers = <<>> THEN location
    ELSE HxLocation_headers(
             HxLocation_header(location, Head(headers).k, Head(headers).v),
             Tail(headers))

\* HxLocation::values_json
HxLocation_values_json(location, values) ==
    [location EXCEPT !.values = Some(values)]

\* HxLocation::disable_push
HxLocation_disable_push(location) ==
    [location EXCEPT !.push = Some(JBool(FALSE))]

\* HxLocation::push_path
HxLocation_push_path(location, path) ==
    [location EXCEPT !.push = Some(JString(path))]

\* HxLocation::replace
HxLocation_replace(location, path) ==
    [location EXCEPT !.replace = Some(path)]

\* the names of the fields after rename_all = "camelCase"
key_path == <<"p", "a", "t", "h">>
key_target == <<"t", "a", "r", "g", "e", "t">>
key_source == <<"s", "o", "u", "r", "c", "e">>
key_event == <<"e", "v", "e", "n", "t">>
key_swap == <<"s", "w", "a", "p">>
key_headers == <<"h", "e", "a", "d", "e", "r", "s">>
key_values == <<"v", "a", "l", "u", "e", "s">>
key_handler == <<"h", "a", "n", "d", "l", "e", "r">>
key_select == <<"s", "e", "l", "e", "c", "t">>
key_push == <<"p", "u", "s", "h">>
key_replace == <<"r", "e", "p", "l", "a", "c", "e">>

\* an Option<String> field under skip_serializing_if = "Option::is_none"
serialize_string_field(key, field) ==
    IF field.some THEN <<[k |-> key, v |-> JString(field.v)]>> ELSE <<>>

\* an Option<Value> field under skip_serializing_if = "Option::is_none"
serialize_value_field(key, field) ==
    IF field.some THEN <<[k |-> key, v |-> field.v]>> ELSE <<>>

\* the BTreeMap<String, String> under skip_serializing_if = "BTreeMap::is_empty"
serialize_headers_field(key, headers) ==
    IF headers = <<>> THEN <<>>
    ELSE <<[k |-> key,
            v |-> JObject([i \in 1..Len(headers) |->
                              [k |-> headers[i].k,
                               v |-> JString(headers[i].v)]])]>>

\* derive(Serialize) for HxLocation: the fields in declaration order
serialize_HxLocation(location) ==
    <<[k |-> key_path, v |-> JString(location.path)]>>
    \o serialize_string_field(key_target, location.target)
    \o serialize_string_field(key_source, location.source)
    \o serialize_string_field(key_event, location.event)
    \o serialize_string_field(key_swap, location.swap)
    \o serialize_headers_field(key_headers, location.headers)
    \o serialize_value_field(key_values, location.values)
    \o serialize_string_field(key_handler, location.handler)
    \o serialize_string_field(key_select, location.select)
    \o serialize_value_field(key_push, location.push)
    \o serialize_string_field(key_replace, location.replace)

\* into_header_value with an unset replace written as null
into_header_value_with_null(location) ==
    to_string(JObject(
        serialize_HxLocation(location)
        \o (IF location.replace.some THEN <<>>
            ELSE <<[k |-> key_replace, v |-> JNull]>>)))

\* HxLocation::into_header_value
into_header_value(location) == to_string(JObject(serialize_HxLocation(location)))

---------------------------------------------------------------------------
(* Header-setting methods of Htmx (htmx.rs) *)

\* one header-setting call as the handler made it: the method, its text or
\* SwapType argument, and its HxLocation argument
SetCall(op, value) ==
    [op |-> op, value |-> value, location |-> HxLocation_new(<<>>)]

\* a call of redirect_with_location as the handler made it
LocationCall(location) ==
    [op |-> "redirect_with_location", value |-> <<>>, location |-> location]

\* self.inner.borrow_mut().response_headers.insert(name, value), the body of
\* every header-setting method, through an Htmx whose Rc points to `cell`
set_response_header(cell, header_name, value, made) ==
    /\ pc = "handler"
    /\ ncalls < MaxCalls
    /\ LET guard == IF cell = 0 THEN try_borrow_mut(borrow)
                    ELSE try_borrow_mut(0)
       IN  IF guard.ok
           THEN /\ IF cell = 0
                   THEN /\ inner' = [inner EXCEPT !.response_headers =
                                        insert(@, header_name, value)]
                        /\ cells' = cells
                        /\ borrow' = drop_RefMut(guard.b)
                   ELSE /\ cells' = [cells EXCEPT ![cell].response_headers =
                                        insert(@, header_name, value)]
                        /\ UNCHANGED <<inner, borrow>>
                /\ sets' = Append(sets, made)
                /\ ncalls' = ncalls + 1
                /\ UNCHANGED flights
                /\ UNCHANGED <<req, htmx, res, handler_res, warned, pc, hist,
                               handles, svc_result, call_result>>
           ELSE panic

\* Htmx::redirect
redirect(path) ==
    set_response_header(0, HX_REDIRECT, path, SetCall("redirect", path))

\* Htmx::redirect_with_swap
redirect_with_swap(path) ==
    set_response_header(0, HX_LOCATION, path, SetCall("redirect_with_swap", path))

\* Htmx::refresh
refresh ==
    set_response_header(0, HX_REFRESH, <<"t", "r", "u", "e">>,
                        SetCall("refresh", <<>>))

\* push_url writing the name replace_url writes
push_url_under_replace_url(path) ==
    set_response_header(0, HX_REPLACE_URL, path, SetCall("push_url", path))

\* Htmx::push_url
push_url(path) ==
    set_response_header(0, HX_PUSH_URL, path, SetCall("push_url", path))

\* Htmx::replace_url
replace_url(path) ==
    set_response_header(0, HX_REPLACE_URL, path, SetCall("replace_url", path))

\* retarget writing the name of the Standard trigger header
retarget_under_trigger(selector) ==
    set_response_header(0, HX_TRIGGER, selector, SetCall("retarget", selector))

\* Htmx::retarget
retarget(selector) ==
    set_response_header(0, HX_RETARGET, selector, SetCall("retarget", selector))

\* Htmx::reselect
reselect(selector) ==
    set_response_header(0, HX_RESELECT, selector, SetCall("reselect", selector))

\* Htmx::reswap
reswap(swap_type) ==
    set_response_header(0, HX_RESWAP, SwapType_to_string(swap_type),
                        SetCall("reswap", <<swap_type>>))

\* Htmx::redirect_with_location
redirect_with_location(location) ==
    set_response_header(0, HX_LOCATION, into_header_value(location),
                        LocationCall(location))

---------------------------------------------------------------------------
(* Shared handles *)

\* struct Htmx: the Rc on a cell (0: the cell of the request extensions,
\* k > 0: cells[k]) and the three public flags
Htmx_of(cell, flags) ==
    [inner |-> cell,
     is_htmx |-> flags.is_htmx,
     boosted |-> flags.boosted,
     history_restore_request |-> flags.history_restore_request]

\* the HtmxInner a handle points to
cell_of(h) == IF h.inner = 0 THEN inner ELSE cells[h.inner]

\* an extractor that builds a cell of its own for every Htmx
from_request_new_cell ==
    /\ pc = "handler"
    /\ Len(handles) < MaxHandles
    /\ LET in == HtmxInner_new(req)
       IN  /\ cells' = Append(cells, in)
           /\ handles' = Append(handles,
                  [ok |-> TRUE, v |-> Htmx_of(Len(cells) + 1, from_inner(in))])
    /\ UNCHANGED flights
    /\ UNCHANGED <<req, inner, htmx, res, handler_res, warned, pc, hist, ncalls,
                   svc_result, call_result, sets, borrow>>

\* an extractor that stores the Htmx it builds in the request extensions
from_request_storing ==
    /\ pc = "handler"
    /\ Len(handles) < MaxHandles
    /\ IF htmx.some
       THEN /\ handles' = Append(handles, [ok |-> TRUE, v |-> Htmx_of(0, htmx.v)])
            /\ UNCHANGED <<inner, htmx>>
       ELSE LET in == HtmxInner_new(req)
            IN  /\ inner' = in
                /\ htmx' = Some(from_inner(in))
                /\ handles' = Append(handles,
                       [ok |-> TRUE, v |-> Htmx_of(0, from_inner(in))])
    /\ UNCHANGED flights
    /\ UNCHANGED <<req, res, handler_res, warned, pc, hist, ncalls, cells,
                   svc_result, call_result, sets, borrow>>

\* FromRequest for Htmx: a clone of the Htmx in the request extensions, or,
\* when there is none, a new cell built from the request
from_request ==
    /\ pc = "handler"
    /\ Len(handles) < MaxHandles
    /\ IF htmx.some
       THEN /\ handles' = Append(handles, [ok |-> TRUE, v |-> Htmx_of(0, htmx.v)])
            /\ cells' = cells
       ELSE LET in == HtmxInner_new(req)
            IN  /\ cells' = Append(cells, in)
                /\ handles' = Append(handles,
                       [ok |-> TRUE, v |-> Htmx_of(Len(cells) + 1, from_inner(in))])
    /\ UNCHANGED flights
    /\ UNCHANGED <<req, inner, htmx, res, handler_res, warned, pc, hist, ncalls,
                   svc_result, call_result, sets, borrow>>

\* the wrapped service completes with a response; the middleware writes the
\* accumulator onto it and returns it
respond(hres, status_code) ==
    /\ pc = "handler"
    /\ IF try_borrow(borrow).ok
       THEN /\ svc_result' = Some(Ok(status_code))
            /\ call_result' = Some(Ok(status_code))
            /\ LET r == serialize([headers |-> hres, warned |-> {}])
               IN  /\ res' = r.headers
                   /\ warned' = r.warned
            /\ handler_res' = hres
            /\ pc' = "done"
            /\ UNCHANGED flights
            /\ UNCHANGED <<req, inner, htmx, hist, ncalls, handles, cells, sets,
                           borrow>>
       ELSE panic

\* a middleware that writes the accumulator before it returns the error
fail_after_serializing ==
    /\ pc = "handler"
    /\ pc' = "failed"
    /\ svc_result' = Some(Err(service_error))
    /\ call_result' = Some(Err(service_error))
    /\ LET r == serialize([headers |-> res, warned |-> warned])
       IN  /\ res' = r.headers
           /\ warned' = r.warned
    /\ UNCHANGED flights
    /\ UNCHANGED <<req, inner, htmx, handler_res, hist, ncalls,
                   handles, cells, sets, borrow>>

\* the wrapped service completes with an error: `fut.await?` returns it
fail ==
    /\ pc = "handler"
    /\ pc' = "failed"
    /\ svc_result' = Some(Err(service_error))
    /\ call_result' = Some(Err(service_error))
    /\ UNCHANGED flights
    /\ UNCHANGED <<req, inner, htmx, res, handler_res, warned, hist, ncalls,
                   handles, cells, sets, borrow>>

Next ==
    \/ call
    \/ \E name \in Names, payload \in Payloads, trigger_type \in TriggerTypes :
          trigger_event(name, payload, trigger_type)
    \/ \E path \in Paths : redirect(path)
    \/ \E hres \in HandlerResponses : respond(hres, 200)
    \/ fail

Spec == Init /\ [][Next]_vars

---------------------------------------------------------------------------
(* serde_json::from_str::<Value>, which the crate's tests read the trigger *)
(* headers with (lib.rs, e.g. lines 104 and 388)                           *)

ParseError == [ok |-> FALSE, v |-> JNull, i |-> 0]

TextError == [ok |-> FALSE, v |-> <<>>, i |-> 0]

IsDigit(c) == \E d \in 1..10 : Digits[d] = c

DigitValue(c) == (CHOOSE d \in 1..10 : Digits[d] = c) - 1

RECURSIVE skip_whitespace(_, _)
skip_whitespace(s, i) ==
    IF i <= Len(s) /\ s[i] \in {" ", "\t", "\n", "\r"}
    THEN skip_whitespace(s, i + 1) ELSE i

\* the characters of a string, from the one after its opening quote
RECURSIVE parse_str(_, _, _)
parse_str(s, i, acc) ==
    IF i > Len(s) THEN TextError
    ELSE CASE s[i] = "\"" -> [ok |-> TRUE, v |-> acc, i |-> i + 1]
           [] s[i] = "\\" ->
                IF i + 1 > Len(s) THEN TextError
                ELSE CASE s[i + 1] = "\"" -> parse_str(s, i + 2, Append(acc, "\""))
                       [] s[i + 1] = "\\" -> parse_str(s, i + 2, Append(acc, "\\"))
                       [] s[i + 1] = "/" -> parse_str(s, i + 2, Append(acc, "/"))
                       [] s[i + 1] = "n" -> parse_str(s, i + 2, Append(acc, "\n"))
                       [] s[i + 1] = "r" -> parse_str(s, i + 2, Append(acc, "\r"))
                       [] s[i + 1] = "t" -> parse_str(s, i + 2, Append(acc, "\t"))
                       [] OTHER -> TextError
           [] s[i] \in {"\n", "\r", "\t"} -> TextError
           [] OTHER -> parse_str(s, i + 1, Append(acc, s[i]))

RECURSIVE parse_digits(_, _, _)
parse_digits(s, i, acc) ==
    IF i <= Len(s) /\ IsDigit(s[i])
    THEN parse_digits(s, i + 1, 10 * acc + DigitValue(s[i]))
    ELSE [ok |-> TRUE, v |-> JNumber(acc), i |-> i]

parse_number(s, i) ==
    IF s[i] = "0" THEN [ok |-> TRUE, v |-> JNumber(0), i |-> i + 1]
    ELSE parse_digits(s, i, 0)

parse_ident(s, i, word, val) ==
    IF i + Len(word) - 1 <= Len(s) /\ SubSeq(s, i, i + Len(word) - 1) = word
    THEN [ok |-> TRUE, v |-> val, i |-> i + Len(word)]
    ELSE ParseError

RECURSIVE parse_value(_, _)
RECURSIVE parse_members(_, _, _)
parse_members(s, i, acc) ==
    LET j == skip_whitespace(s, i)
    IN  IF j > Len(s) \/ s[j] # "\"" THEN ParseError
        ELSE LET key == parse_str(s, j + 1, <<>>)
             IN  IF ~key.ok THEN ParseError
                 ELSE LET c == skip_whitespace(s, key.i)
                      IN  IF c > Len(s) \/ s[c] # ":" THEN ParseError
                          ELSE LET val == parse_value(s, c + 1)
                               IN  IF ~val.ok THEN ParseError
                                   ELSE LET e == skip_whitespace(s, val.i)
                                            ms == insert(acc, key.v, val.v)
                                        IN  IF e > Len(s) THEN ParseError
                                            ELSE CASE s[e] = "," -> parse_members(s, e + 1, ms)
                                                   [] s[e] = "}" -> [ok |-> TRUE, v |-> JObject(ms), i |-> e + 1]
                                                   [] OTHER -> ParseError

parse_value(s, i) ==
    LET j == skip_whitespace(s, i)
    IN  IF j > Len(s) THEN ParseError
        ELSE CASE s[j] = "{" ->
                    LET c == skip_whitespace(s, j + 1)
                    IN  IF c <= Len(s) /\ s[c] = "}"
                        THEN [ok |-> TRUE, v |-> JObject(<<>>), i |-> c + 1]
                        ELSE parse_members(s, j + 1, <<>>)
               [] s[j] = "\"" ->
                    LET str == parse_str(s, j + 1, <<>>)
                    IN  IF str.ok THEN [ok |-> TRUE, v |-> JString(str.v), i |-> str.i]
                        ELSE ParseError
               [] IsDigit(s[j]) -> parse_number(s, j)
               [] s[j] = "t" -> parse_ident(s, j, <<"t", "r", "u", "e">>, JBool(TRUE))
               [] s[j] = "f" -> parse_ident(s, j, <<"f", "a", "l", "s", "e">>, JBool(FALSE))
               [] s[j] = "n" -> parse_ident(s, j, <<"n", "u", "l", "l">>, JNull)
               [] OTHER -> ParseError

\* the whole text must be one value
from_str(s) ==
    LET val == parse_value(s, 1)
    IN  IF val.ok /\ skip_whitespace(s, val.i) = Len(s) + 1 THEN val
        ELSE ParseError

\* Value's Index<&str>: the member, Null when there is none
index(val, key) ==
    IF val.t = "obj" /\ contains_key(val.m, key) THEN get(val.m, key) ELSE JNull

---------------------------------------------------------------------------
(* Payload serialization: handlers that record every kind of payload *)

\* the text of test_string_payload_that_looks_like_json: {not: "json"
looks_like_json ==
    <<"{", "n", "o", "t", ":", " ", "\"", "j", "s", "o", "n", "\"">>

\* a text that is a JSON object after leading whitespace
object_text == <<" ", "{", "}">>

id_object == JObject(<<[k |-> <<"i", "d">>, v |-> JNumber(1)]>>)

PayloadNames == {message, status}

AllPayloads ==
    {NoPayload, Some(text(deleted)), Some(text(looks_like_json)),
     Some(text(object_text)), Some(text(quote_text)), Some(boolean(TRUE)),
     Some(number(42)), Some(json(id_object))}

NextPayload ==
    \/ call
    \/ \E name \in PayloadNames, payload \in AllPayloads :
          trigger_event(name, payload, NoType)
    \/ \E hres \in HandlerResponses : respond(hres, 200)

SpecPayload == Init /\ [][NextPayload]_vars

\* the handlers of the documented example: "message" and "status", with the
\* text payload "deleted" or none
ExamplePayloads == {NoPayload, Some(text(deleted))}

NextExample ==
    \/ call
    \/ \E name \in PayloadNames, payload \in ExamplePayloads :
          trigger_event(name, payload, NoType)
    \/ \E hres \in HandlerResponses : respond(hres, 200)

SpecExample == Init /\ [][NextExample]_vars

---------------------------------------------------------------------------
(* Response shaping: handlers that call the header-setting methods *)

\* a value with a raw newline
newline_text == <<"a", "\n", "b">>

HeaderTexts == {items, newline_text}

\* 200 OK and 404 Not Found
Statuses == {200, 404}

NextHeaders ==
    \/ call
    \/ \E path \in HeaderTexts : redirect(path)
    \/ \E path \in HeaderTexts : redirect_with_swap(path)
    \/ refresh
    \/ \E path \in HeaderTexts : push_url(path)
    \/ \E path \in HeaderTexts : replace_url(path)
    \/ \E selector \in HeaderTexts : retarget(selector)
    \/ \E selector \in HeaderTexts : reselect(selector)
    \/ \E name \in Names : trigger_event(name, NoPayload, NoType)
    \/ \E status_code \in Statuses : respond(NoResponseHeaders, status_code)
    \/ fail

SpecHeaders == Init /\ [][NextHeaders]_vars

---------------------------------------------------------------------------
(* Swap strategies: handlers that call reswap and redirect_with_location *)

\* HxLocation::new("/items").swap(swap_type)
swap_location(swap_type) == HxLocation_swap(HxLocation_new(items), swap_type)

NextSwap ==
    \/ call
    \/ \E swap_type \in SwapTypes :
          Len(sets) < MaxSwapCalls /\ reswap(swap_type)
    \/ \E swap_type \in SwapTypes :
          /\ Len(sets) < MaxSwapCalls
          /\ redirect_with_location(swap_location(swap_type))
    \/ respond(NoResponseHeaders, 200)
    \/ fail

SpecSwap == Init /\ [][NextSwap]_vars

---------------------------------------------------------------------------
(* Navigation objects: handlers that call redirect_with_location *)

content_selector == <<"#", "c", "o", "n", "t", "e", "n", "t">>
button_selector == <<"#", "b", "u", "t", "t", "o", "n">>
custom == <<"c", "u", "s", "t", "o", "m">>
handle_response == <<"h", "a", "n", "d", "l", "e", "R", "e", "s", "p", "o", "n", "s", "e">>
fragment_selector == <<".", "f", "r", "a", "g", "m", "e", "n", "t">>
x_test == <<"X", "-", "T", "e", "s", "t">>
accept == <<"A", "c", "c", "e", "p", "t">>
history_path == <<"/", "h", "i", "s", "t", "o", "r", "y", "-", "p", "a", "t", "h">>
replace_path == <<"/", "r", "e", "p", "l", "a", "c", "e", "-", "p", "a", "t", "h">>

\* the builder chain of test_htmx_redirect_with_location, the values given
\* as a Value
builder_location ==
    HxLocation_replace(
      HxLocation_push_path(
        HxLocation_values_json(
          HxLocation_header(
            HxLocation_select(
              HxLocation_handler(
                HxLocation_swap(
                  HxLocation_event(
                    HxLocation_source(
                      HxLocation_target(HxLocation_new(items),
                                        content_selector),
                      button_selector),
                    custom),
                  "OuterHtml"),
                handle_response),
              fragment_selector),
            x_test, <<"1">>),
          id_object),
        history_path),
      replace_path)

Locations ==
    {HxLocation_new(items),
     builder_location,
     HxLocation_target(HxLocation_new(items), newline_text),
     HxLocation_disable_push(
         HxLocation_headers(HxLocation_new(items),
                            <<[k |-> x_test, v |-> <<"1">>],
                              [k |-> accept, v |-> quote_text],
                              [k |-> x_test, v |-> <<"2">>]>>)),
     HxLocation_values_json(HxLocation_new(items), JNull),
     HxLocation_replace(
         HxLocation_select(HxLocation_swap(HxLocation_new(items), "None"),
                           fragment_selector),
         replace_path),
     HxLocation_handler(
         HxLocation_event(HxLocation_source(HxLocation_new(items),
                                            button_selector),
                          custom),
         handle_response)}

NextLocation ==
    \/ call
    \/ \E location \in Locations :
          Len(sets) < MaxSwapCalls /\ redirect_with_location(location)
    \/ respond(NoResponseHeaders, 200)
    \/ fail

SpecLocation == Init /\ [][NextLocation]_vars

---------------------------------------------------------------------------
(* Default phase: handlers that leave the trigger type out for event1 and *)
(* give the after-settle or after-swap phase for event2                   *)

LaterPhases == {Some("AfterSettle"), Some("AfterSwap")}

NextDefault ==
    \/ call
    \/ \E payload \in ExamplePayloads : trigger_event(event1, payload, NoType)
    \/ \E payload \in ExamplePayloads, trigger_type \in LaterPhases :
          trigger_event(event2, payload, trigger_type)
    \/ respond(NoResponseHeaders, 200)
    \/ fail

SpecDefault == Init /\ [][NextDefault]_vars

---------------------------------------------------------------------------
(* Shared accumulator: handlers that take several Htmx arguments *)

\* the bytes of "#list"
list_bytes == <<35, 108, 105, 115, 116>>

\* a plain request, and an htmx request with a target
HandleRequests ==
    {NoHeaders,
     [NoHeaders EXCEPT ![HX_REQUEST] = Some(true_bytes),
                       ![HX_TARGET] = Some(list_bytes)]}

InitHandles == InitWith(HandleRequests)

\* the event the handler triggers through its i-th Htmx
HandleEvents == <<event1, event2, message, status>>

NextHandles ==
    \/ call
    \/ from_request
    \/ \E i \in 1..Len(handles) :
          trigger_event_on(handles[i].v.inner, HandleEvents[i], NoPayload,
                           NoType)
    \/ \E i \in 1..Len(handles) :
          set_response_header(handles[i].v.inner, HX_REDIRECT, items,
                              SetCall("redirect", items))
    \/ respond(NoResponseHeaders, 200)
    \/ fail

SpecHandles == InitHandles /\ [][NextHandles]_vars

---------------------------------------------------------------------------
(* An App without .wrap(HtmxMiddleware): InnerHtmxMiddleware::call never   *)
(* runs, the request reaches the handler with no Htmx in its extensions    *)
(* and the handler's response goes out as it is                            *)

\* the handler's service is called with the request as it arrived
call_unwrapped ==
    /\ pc = "new"
    /\ pc' = "handler"
    /\ UNCHANGED flights
    /\ UNCHANGED <<req, inner, htmx, res, handler_res, warned, hist, ncalls,
                   handles, cells, svc_result, call_result, sets, borrow>>

\* the handler's service completes with a response; no code of the crate
\* runs after it
respond_unwrapped(hres, status_code) ==
    /\ pc = "handler"
    /\ svc_result' = Some(Ok(status_code))
    /\ res' = hres
    /\ handler_res' = hres
    /\ pc' = "done"
    /\ UNCHANGED flights
    /\ UNCHANGED <<req, inner, htmx, warned, hist, ncalls, handles, cells,
                   call_result, sets, borrow>>

NextUnwrapped ==
    \/ call_unwrapped
    \/ from_request
    \/ \E i \in 1..Len(handles), name \in Names :
          trigger_event_on(handles[i].v.inner, name, NoPayload, NoType)
    \/ \E i \in 1..Len(handles) :
          set_response_header(handles[i].v.inner, HX_REDIRECT, items,
                              SetCall("redirect", items))
    \/ \E hres \in HandlerResponses : respond_unwrapped(hres, 200)

SpecUnwrapped == InitHandles /\ [][NextUnwrapped]_vars

---------------------------------------------------------------------------
(* Requests in flight: one worker interleaves the handlers of several     *)
(* requests; the Rc of each Htmx is the index of its cell in `heap`       *)

\* an allocation that hands out the first cell again
Rc_new_shared(hp, in) ==
    IF hp = <<>> THEN [heap |-> <<in>>, ptr |-> 1]
    ELSE [heap |-> hp, ptr |-> 1]

\* Rc::new(RefCell::new(..)): a new cell on the heap
Rc_new(hp, in) == [heap |-> Append(hp, in), ptr |-> Len(hp) + 1]

\* Htmx::new
Htmx_new(hp, request) ==
    LET in == HtmxInner_new(request)
        rc == Rc_new(hp, in)
    IN  [heap |-> rc.heap, htmx |-> Htmx_of(rc.ptr, from_inner(in))]

FlightRequests == HandleRequests

\* InnerHtmxMiddleware::call up to self.service.call(req), for a request
\* that arrives while others are in flight
call_in_flight(request) ==
    /\ Len(flight) < MaxFlights
    /\ LET made == Htmx_new(heap, request)
       IN  /\ heap' = made.heap
           /\ flight' = Append(flight,
                  [req |-> request, ext |-> made.htmx, pc |-> "handler",
                   res |-> NoResponseHeaders, log |-> <<>>, path |-> NoText])
    /\ UNCHANGED <<req, inner, htmx, res, handler_res, warned, pc, hist, ncalls,
                   handles, cells, svc_result, call_result, sets, borrow>>

\* the handler of the f-th request triggers its event
trigger_event_in_flight(f, name) ==
    /\ flight[f].pc = "handler"
    /\ flight[f].log = <<>>
    /\ heap' = [heap EXCEPT ![flight[f].ext.inner] =
                   trigger_event_inner(@, name, NoPayload, NoType)]
    /\ flight' = [flight EXCEPT ![f].log =
                     Append(@, [name |-> name, payload |-> NoPayload])]
    /\ UNCHANGED <<req, inner, htmx, res, handler_res, warned, pc, hist, ncalls,
                   handles, cells, svc_result, call_result, sets, borrow>>

\* the handler of the f-th request calls redirect
redirect_in_flight(f, path) ==
    /\ flight[f].pc = "handler"
    /\ flight[f].path = NoText
    /\ heap' = [heap EXCEPT ![flight[f].ext.inner].response_headers =
                   insert(@, HX_REDIRECT, path)]
    /\ flight' = [flight EXCEPT ![f].path = Some(path)]
    /\ UNCHANGED <<req, inner, htmx, res, handler_res, warned, pc, hist, ncalls,
                   handles, cells, svc_result, call_result, sets, borrow>>

\* the service of the f-th request completes; the middleware writes the
\* cell of the request's Htmx onto the response
respond_in_flight(f) ==
    /\ flight[f].pc = "handler"
    /\ flight' = [flight EXCEPT
           ![f].res = serialize_inner([headers |-> NoResponseHeaders,
                                       warned |-> {}],
                                      heap[flight[f].ext.inner]).headers,
           ![f].pc = "done"]
    /\ UNCHANGED <<req, inner, htmx, res, handler_res, warned, pc, hist, ncalls,
                   handles, cells, svc_result, call_result, sets, borrow, heap>>

\* the service of the f-th request completes with an error
fail_in_flight(f) ==
    /\ flight[f].pc = "handler"
    /\ flight' = [flight EXCEPT ![f].pc = "failed"]
    /\ UNCHANGED <<req, inner, htmx, res, handler_res, warned, pc, hist, ncalls,
                   handles, cells, svc_result, call_result, sets, borrow, heap>>

NextFlights ==
    \/ \E request \in FlightRequests : call_in_flight(request)
    \/ \E f \in 1..Len(flight), name \in Names : trigger_event_in_flight(f, name)
    \/ \E f \in 1..Len(flight) : redirect_in_flight(f, items)
    \/ \E f \in 1..Len(flight) : respond_in_flight(f)
    \/ \E f \in 1..Len(flight) : fail_in_flight(f)

SpecFlights == Init /\ [][NextFlights]_vars

---------------------------------------------------------------------------
(* Malformed input: handlers that call every method, through any of their *)
(* Htmx arguments, with empty and unencodable names and values            *)

empty_text == <<>>

CallNames == {empty_text, event1}

CallPayloads == {NoPayload, Some(text(quote_text))}

CallTypes == {NoType, Some("AfterSwap")}

CallValues == {empty_text, newline_text}

NextCalls ==
    \/ call
    \/ from_request
    \/ \E i \in 1..Len(handles), name \in CallNames, payload \in CallPayloads,
          trigger_type \in CallTypes :
          /\ ncalls < MaxApiCalls
          /\ trigger_event_on(handles[i].v.inner, name, payload, trigger_type)
    \/ \E value \in CallValues : ncalls < MaxApiCalls /\ redirect(value)
    \/ \E value \in CallValues : ncalls < MaxApiCalls /\ retarget(value)
    \/ ncalls < MaxApiCalls /\ refresh
    \/ ncalls < MaxApiCalls /\ reswap("Delete")
    \/ /\ ncalls < MaxApiCalls
       /\ redirect_with_location(HxLocation_new(empty_text))
    \/ \E status_code \in Statuses : respond(NoResponseHeaders, status_code)
    \/ fail

SpecCalls == Init /\ [][NextCalls]_vars

---------------------------------------------------------------------------
(* Header catalog: handlers that call every header-setting method and     *)
(* trigger events of every phase, on responses that may carry headers of  *)
(* their own                                                              *)

ExplicitTypes == {Some(p) : p \in Phases}

RedirectPaths == {items, history_path}

NextCatalog ==
    \/ call
    \/ \E name \in Names, payload \in ExamplePayloads,
          trigger_type \in ExplicitTypes :
          ncalls < MaxApiCalls /\ trigger_event(name, payload, trigger_type)
    \/ \E path \in RedirectPaths : ncalls < MaxApiCalls /\ redirect(path)
    \/ ncalls < MaxApiCalls /\ redirect_with_swap(items)
    \/ ncalls < MaxApiCalls /\ redirect_with_location(HxLocation_new(items))
    \/ ncalls < MaxApiCalls /\ refresh
    \/ ncalls < MaxApiCalls /\ push_url(items)
    \/ ncalls < MaxApiCalls /\ replace_url(items)
    \/ ncalls < MaxApiCalls /\ reswap("Delete")
    \/ ncalls < MaxApiCalls /\ retarget(items)
    \/ ncalls < MaxApiCalls /\ reselect(items)
    \/ \E hres \in HandlerResponses : respond(hres, 200)
    \/ fail

SpecCatalog == Init /\ [][NextCatalog]_vars

---------------------------------------------------------------------------
(* Order of calls: handlers that make the same calls in different orders   *)

\* a trigger_event call of the handler
EventOp(name, payload, trigger_type) ==
    [kind |-> "event", name |-> name, payload |-> payload,
     phase |-> trigger_type, made |-> SetCall("none", <<>>)]

\* a header-setting call of the handler
SetOp(made) ==
    [kind |-> "set", name |-> <<>>, payload |-> NoPayload,
     phase |-> "Standard", made |-> made]

\* the calls the handlers choose from: two events of one phase, one of each
\* other phase, two calls of one setter, the two writers of hx-location and
\* one more setter
CommuteOps ==
    {EventOp(event1, NoPayload, "Standard"),
     EventOp(event2, Some(text(deleted)), "Standard"),
     EventOp(event1, Some(text(deleted)), "AfterSettle"),
     EventOp(event2, NoPayload, "AfterSwap"),
     SetOp(SetCall("redirect", items)),
     SetOp(SetCall("redirect", history_path)),
     SetOp(SetCall("redirect_with_swap", items)),
     SetOp(LocationCall(HxLocation_new(items))),
     SetOp(SetCall("retarget", items))}

\* the handler makes the call
Act(op) ==
    CASE op.kind = "event" ->
           trigger_event(op.name, op.payload, Some(op.phase))
      [] op.kind = "set" /\ op.made.op = "redirect" -> redirect(op.made.value)
      [] op.kind = "set" /\ op.made.op = "redirect_with_swap" ->
           redirect_with_swap(op.made.value)
      [] op.kind = "set" /\ op.made.op = "redirect_with_location" ->
           redirect_with_location(op.made.location)
      [] op.kind = "set" /\ op.made.op = "retarget" -> retarget(op.made.value)

NextCommute ==
    \/ call
    \/ \E op \in CommuteOps : ncalls < MaxApiCalls /\ Act(op)
    \/ \E hres \in HandlerResponses : respond(hres, 200)
    \/ fail

SpecCommute == Init /\ [][NextCommute]_vars

---------------------------------------------------------------------------
(* Snapshot under mutation: the handlers of the header catalog, on        *)
(* requests that carry the htmx request headers                           *)

\* the bytes of "btn"
btn_bytes == <<98, 116, 110>>

\* a request with all eight htmx headers, one with an inbound hx-trigger
\* alone, and one with none
SnapshotRequests ==
    {NoHeaders,
     [NoHeaders EXCEPT ![HX_TRIGGER_REQ] = Some(btn_bytes)],
     [h \in RequestHeaders |->
         IF h \in {HX_REQUEST, HX_BOOSTED, HX_HISTORY_RESTORE_REQUEST}
         THEN Some(true_bytes)
         ELSE IF h = HX_TRIGGER_REQ THEN Some(btn_bytes)
         ELSE Some(list_bytes)]}

InitSnapshot == InitWith(SnapshotRequests)

SpecSnapshot == InitSnapshot /\ [][NextCatalog]_vars

---------------------------------------------------------------------------
(* Unencodable events: handlers that trigger events whose name or payload *)
(* holds a raw newline                                                    *)

EventNames == {event1, newline_text}

EventPayloads == {NoPayload, Some(text(newline_text))}

NextEvents ==
    \/ call
    \/ \E name \in EventNames, trigger_type \in ExplicitTypes :
          trigger_event(name, NoPayload, trigger_type)
    \/ \E payload \in EventPayloads : trigger_event(event2, payload, NoType)
    \/ redirect(items)
    \/ \E status_code \in Statuses : respond(NoResponseHeaders, status_code)
    \/ fail

SpecEvents == Init /\ [][NextEvents]_vars

---------------------------------------------------------------------------
(* Quoted names: handlers that trigger events whose name holds a double   *)
(* quote or a backslash                                                   *)

\* the name a\
backslash_text == <<"a", "\\">>

QuotedNames == {event1, quote_text, backslash_text}

NextQuoted ==
    \/ call
    \/ \E name \in QuotedNames, payload \in ExamplePayloads :
          trigger_event(name, payload, NoType)
    \/ respond(NoResponseHeaders, 200)
    \/ fail

SpecQuoted == Init /\ [][NextQuoted]_vars

---------------------------------------------------------------------------
(* Request snapshot: requests with any of the eight htmx headers *)

\* "True", "false", "1", "", two bytes that are no UTF-8, "é" in UTF-8,
\* and " a " with its spaces
HeaderValues ==
    {true_bytes, <<84, 114, 117, 101>>, <<102, 97, 108, 115, 101>>, <<49>>,
     <<>>, <<255, 255>>, <<195, 169>>, <<32, 97, 32>>}

RequestsWith(present) ==
    {[h \in RequestHeaders |-> IF h \in present THEN Some(f[h]) ELSE NoBytes] :
        f \in [present -> HeaderValues]}

\* a request carrying at most MaxReqHeaders of the htmx headers
InitRequest ==
    \E present \in SUBSET RequestHeaders :
        /\ Cardinality(present) <= MaxReqHeaders
        /\ InitWith(RequestsWith(present))

NextRequest ==
    \/ call
    \/ from_request
    \/ respond(NoResponseHeaders, 200)
    \/ fail

SpecRequest == InitRequest /\ [][NextRequest]_vars

---------------------------------------------------------------------------
(* What the claims speak of, read off the calls made and the response *)

\* the header the middleware serializes a phase into (middleware.rs 171-185)
HeaderOf(p) ==
    CASE p = "Standard" -> HX_TRIGGER
      [] p = "AfterSettle" -> HX_TRIGGER_AFTER_SETTLE
      [] p = "AfterSwap" -> HX_TRIGGER_AFTER_SWAP

\* trigger_event was called for the phase
Called(p) == hist[p] # <<>>

\* some trigger_event call for the phase had a payload
EverPayload(p) == \E i \in 1..Len(hist[p]) : hist[p][i].payload.some

\* the names of a call log in the order of their first call
RECURSIVE FirstOrder(_)
FirstOrder(log) ==
    IF log = <<>> THEN <<>>
    ELSE LET before == FirstOrder(SubSeq(log, 1, Len(log) - 1))
             name == log[Len(log)].name
         IN  IF \E i \in 1..Len(before) : before[i] = name THEN before
             ELSE Append(before, name)

\* the payload of the last call that named `name`
LastPayload(log, name) ==
    LET last == CHOOSE i \in 1..Len(log) :
                    /\ log[i].name = name
                    /\ \A j \in (i + 1)..Len(log) : log[j].name # name
    IN  log[last].payload

\* a name was recorded first without and later with a payload
Upgraded(log, name) ==
    \E i, j \in 1..Len(log) :
        /\ i < j
        /\ log[i].name = name /\ ~log[i].payload.some
        /\ log[j].name = name /\ log[j].payload.some

RECURSIVE JoinWithCommas(_)
JoinWithCommas(names) ==
    IF names = <<>> THEN <<>>
    ELSE IF Len(names) = 1 THEN names[1]
    ELSE names[1] \o <<",">> \o JoinWithCommas(Tail(names))

\* a text of the shape { ... }
IsObjectForm(t) == Len(t) >= 2 /\ t[1] = "{" /\ t[Len(t)] = "}"

\* the first place at or after `from` where `pat` occurs in `t`, 0 if none
IndexFrom(t, pat, from) ==
    LET at == {j \in from..(Len(t) - Len(pat) + 1) :
                  SubSeq(t, j, j + Len(pat) - 1) = pat}
    IN  IF at = {} THEN 0 ELSE CHOOSE j \in at : \A x \in at : j <= x

\* the member key as it stands in an object text: "name":
KeyMark(name) == <<"\"">> \o name \o <<"\"", ":">>

\* the keys of an object text are `names`, in this order: the first right
\* after the brace at `from`, each next one after the one before
RECURSIVE KeysInOrder(_, _, _)
KeysInOrder(t, names, from) ==
    IF names = <<>> THEN TRUE
    ELSE LET j == IndexFrom(t, KeyMark(names[1]), from)
         IN  /\ j > 0
             /\ from = 2 => j = 2
             /\ KeysInOrder(t, Tail(names), j + Len(KeyMark(names[1])))

\* the middleware wrote the phase's header (it did not skip it with a warning)
Written(p) == pc = "done" /\ HeaderOf(p) \notin warned

---------------------------------------------------------------------------
(* C1: once trigger_event was called for a phase with a payload,           *)
(* is_simple_trigger(phase) is false in every later state and the phase's  *)
(* header is written in the JSON object form, also when later events of    *)
(* the phase have no payload or overwrite the payload-bearing entry.       *)
C1_JsonModeIsPermanent ==
    \A p \in Phases :
        EverPayload(p) =>
            /\ ~is_simple_trigger(p)
            /\ Written(p) =>
                 /\ res[HeaderOf(p)].some
                 /\ IsObjectForm(res[HeaderOf(p)].v)

\* {"event1": null}
C1_text == <<"{", "\"">> \o event1 \o <<"\"", ":", " ", "n", "u", "l", "l", "}">>

\* event1 recorded with a payload and then again without: the map holds no
\* payload any more, the header is still the object form
C1_Witness ==
    /\ pc = "done"
    /\ hist["Standard"] = << [name |-> event1, payload |-> Some(text(deleted))],
                             [name |-> event1, payload |-> NoPayload] >>
    /\ get_triggers("Standard") = << [k |-> event1, v |-> NoPayload] >>
    /\ ~is_simple_trigger("Standard")
    /\ res[HX_TRIGGER] = Some(C1_text)

(* C2: if every trigger_event call for a phase had no payload and at least *)
(* one was made, the header written for the phase is exactly the names in  *)
(* first-insertion order joined by single commas.                          *)
C2_SimpleHeaderIsCommaList ==
    \A p \in Phases :
        (Called(p) /\ ~EverPayload(p) /\ Written(p)) =>
            res[HeaderOf(p)] = Some(JoinWithCommas(FirstOrder(hist[p])))

\* "event1" then "event2" yields event1,event2
C2_Witness ==
    /\ pc = "done"
    /\ hist["Standard"] = << [name |-> event1, payload |-> NoPayload],
                             [name |-> event2, payload |-> NoPayload] >>
    /\ res[HX_TRIGGER] = Some(event1 \o <<",">> \o event2)

(* C6: trigger_event for one phase changes only that phase's map and flag: *)
(* the other phases' maps and flags and the flat map are unchanged, each   *)
(* map holds the names recorded for its own phase only, and a phase's flag *)
(* leaves simple mode only by a payload recorded for that phase.           *)
C6_PhasesAreIndependent ==
    /\ [](\A p \in Phases :
             /\ Keys(get_triggers(p)) = FirstOrder(hist[p])
             /\ is_simple_trigger(p) = ~EverPayload(p)
             /\ (pc = "done" /\ ~Called(p)) =>
                    res[HeaderOf(p)] = handler_res[HeaderOf(p)])
    /\ [][\A name \in Names, payload \in Payloads, trigger_type \in TriggerTypes :
            trigger_event(name, payload, trigger_type) =>
                /\ \A q \in Phases \ {unwrap_or(trigger_type, "Standard")} :
                      /\ get_triggers(q)' = get_triggers(q)
                      /\ is_simple_trigger(q)' = is_simple_trigger(q)
                /\ get_response_headers' = get_response_headers]_vars

\* {"event1": "deleted"}
C6_text ==
    <<"{", "\"">> \o event1 \o <<"\"", ":", " ", "\"">> \o deleted \o <<"\"", "}">>

\* one event in each phase, one of them with a payload: three headers, each
\* with its own event, the two payload-free phases still comma lists
C6_Witness ==
    /\ pc = "done"
    /\ hist["Standard"] = << [name |-> event1, payload |-> Some(text(deleted))] >>
    /\ hist["AfterSettle"] = << [name |-> event2, payload |-> NoPayload] >>
    /\ hist["AfterSwap"] = << [name |-> event1, payload |-> NoPayload] >>
    /\ res[HX_TRIGGER] = Some(C6_text)
    /\ res[HX_TRIGGER_AFTER_SETTLE] = Some(event2)
    /\ res[HX_TRIGGER_AFTER_SWAP] = Some(event1)

(* C7: within a phase names are unique keys; a second trigger_event with a *)
(* recorded name replaces the payload and keeps the key at the place of    *)
(* its first insertion, in the map and in the header written.              *)
C7_KeysUniqueLastWriteWins ==
    /\ [](\A p \in Phases :
             LET map == get_triggers(p)
             IN  /\ \A i, j \in 1..Len(map) : map[i].k = map[j].k => i = j
                 /\ Keys(map) = FirstOrder(hist[p])
                 /\ \A i \in 1..Len(map) :
                       map[i].v = LastPayload(hist[p], map[i].k)
                 /\ (Called(p) /\ Written(p)) =>
                       /\ res[HeaderOf(p)].some
                       /\ IF EverPayload(p)
                          THEN /\ IsObjectForm(res[HeaderOf(p)].v)
                               /\ KeysInOrder(res[HeaderOf(p)].v,
                                              FirstOrder(hist[p]), 2)
                          ELSE res[HeaderOf(p)].v =
                                   JoinWithCommas(FirstOrder(hist[p])))
    /\ [][\A name \in Names, payload \in Payloads, trigger_type \in TriggerTypes :
            trigger_event(name, payload, trigger_type) =>
                LET p == unwrap_or(trigger_type, "Standard")
                    map == get_triggers(p)
                IN  /\ Len(get_triggers(p)') =
                           IF contains_key(map, name) THEN Len(map)
                           ELSE Len(map) + 1
                    /\ \A i \in 1..Len(map) :
                          get_triggers(p)'[i] =
                              IF map[i].k = name
                              THEN [k |-> name, v |-> payload] ELSE map[i]
                    /\ get(get_triggers(p)', name) = payload]_vars

\* {"event1": "deleted","event2": null}
C7_text ==
    <<"{", "\"">> \o event1 \o <<"\"", ":", " ", "\"">> \o deleted
    \o <<"\"", ",", "\"">> \o event2 \o <<"\"", ":", " ", "n", "u", "l", "l", "}">>

\* event1 without payload, event2, then event1 with a payload: JSON form,
\* event1 first with the payload
C7_Witness ==
    /\ pc = "done"
    /\ hist["Standard"] = << [name |-> event1, payload |-> NoPayload],
                             [name |-> event2, payload |-> NoPayload],
                             [name |-> event1, payload |-> Some(text(deleted))] >>
    /\ Upgraded(hist["Standard"], event1)
    /\ res[HX_TRIGGER] = Some(C7_text)

(* C8: a phase for which trigger_event was never called gets no header     *)
(* from the middleware: the response keeps what the handler left under     *)
(* that name (nothing, if it set nothing) and no warning is logged.        *)
C8_EmptyPhaseWritesNothing ==
    \A p \in Phases :
        (pc = "done" /\ ~Called(p)) =>
            /\ res[HeaderOf(p)] = handler_res[HeaderOf(p)]
            /\ HeaderOf(p) \notin warned

\* only AfterSettle was recorded: hx-trigger-after-settle alone is written
C8_Witness ==
    /\ pc = "done"
    /\ ~Called("Standard") /\ Called("AfterSettle") /\ ~Called("AfterSwap")
    /\ handler_res = NoResponseHeaders
    /\ ~res[HX_TRIGGER].some
    /\ res[HX_TRIGGER_AFTER_SETTLE].some
    /\ ~res[HX_TRIGGER_AFTER_SWAP].some

---------------------------------------------------------------------------
\* the JSON value an event stands for: null without payload, else the payload
ExpectedValue(payload) ==
    IF payload.some THEN as_json_value(payload.v) ELSE JNull

\* {"message":"deleted","status":null}
C3_text ==
    <<"{", "\"">> \o message \o <<"\"", ":", "\"">> \o deleted
    \o <<"\"", ",", "\"">> \o status \o <<"\"", ":", "n", "u", "l", "l", "}">>

(* C3: in JSON mode the header text is a JSON object with one member per   *)
(* recorded event in insertion order, null for an absent payload and the   *)
(* payload's JSON form otherwise; "message" with text "deleted" and then   *)
(* "status" without payload yield {"message":"deleted","status":null}.     *)
C3_JsonObjectOfPayloads ==
    \A p \in Phases :
        (EverPayload(p) /\ Written(p)) =>
            /\ res[HeaderOf(p)].some
            /\ LET parsed == from_str(res[HeaderOf(p)].v)
                   names == FirstOrder(hist[p])
               IN  /\ parsed.ok
                   /\ parsed.v.t = "obj"
                   /\ Keys(parsed.v.m) = names
                   /\ \A i \in 1..Len(names) :
                         index(parsed.v, names[i]) =
                             ExpectedValue(LastPayload(hist[p], names[i]))
            /\ hist[p] = << [name |-> message, payload |-> Some(text(deleted))],
                            [name |-> status, payload |-> NoPayload] >>
                  => res[HeaderOf(p)].v = C3_text

(* C4: an event recorded with a text payload is serialized as a JSON       *)
(* string equal to that text, whatever the text holds: the header parses   *)
(* as JSON and the member's value is the original string.                  *)
C4_TextPayloadIsJsonString ==
    \A p \in Phases :
        Written(p) =>
            \A i \in 1..Len(hist[p]) :
                LET name == hist[p][i].name
                    payload == LastPayload(hist[p], name)
                IN  (payload.some /\ as_json_value(payload.v).t = "str") =>
                        /\ res[HeaderOf(p)].some
                        /\ from_str(res[HeaderOf(p)].v).ok
                        /\ index(from_str(res[HeaderOf(p)].v).v, name) =
                               JString(as_json_value(payload.v).s)

(* C5: an event recorded with a structured payload (json, from_value,      *)
(* boolean, number) is serialized as that value's own JSON: parsing the    *)
(* header and reading the member gives back the value recorded.            *)
C5_StructuredPayloadRoundTrips ==
    \A p \in Phases :
        Written(p) =>
            \A i \in 1..Len(hist[p]) :
                LET name == hist[p][i].name
                    payload == LastPayload(hist[p], name)
                IN  (payload.some /\ as_json_value(payload.v).t # "str") =>
                        /\ res[HeaderOf(p)].some
                        /\ from_str(res[HeaderOf(p)].v).ok
                        /\ index(from_str(res[HeaderOf(p)].v).v, name) =
                               as_json_value(payload.v)

---------------------------------------------------------------------------
\* the accessor of each string header
StringHeaders ==
    {HX_CURRENT_URL, HX_PROMPT, HX_TARGET, HX_TRIGGER_REQ, HX_TRIGGER_NAME}

Accessor(h) ==
    CASE h = HX_CURRENT_URL -> current_url
      [] h = HX_PROMPT -> prompt
      [] h = HX_TARGET -> target
      [] h = HX_TRIGGER_REQ -> trigger
      [] h = HX_TRIGGER_NAME -> trigger_name

\* the bytes are the text "true"
IsLiteralTrue(header) == header.some /\ header.v = <<116, 114, 117, 101>>

(* C9: is_htmx, boosted and history_restore_request are true if and only   *)
(* if hx-request, hx-boosted, hx-history-restore-request is present with   *)
(* exactly the value "true"; any other value, undecodable bytes and an     *)
(* absent header give false.                                               *)
C9_FlagsTrueIffLiteralTrue ==
    htmx.some =>
        /\ htmx.v.is_htmx = IsLiteralTrue(req[HX_REQUEST])
        /\ htmx.v.boosted = IsLiteralTrue(req[HX_BOOSTED])
        /\ htmx.v.history_restore_request =
               IsLiteralTrue(req[HX_HISTORY_RESTORE_REQUEST])

\* hx-request: true gives is_htmx, hx-boosted: True does not give boosted
C9_Witness ==
    /\ pc = "handler"
    /\ req[HX_REQUEST] = Some(<<116, 114, 117, 101>>)
    /\ htmx.v.is_htmx
    /\ req[HX_BOOSTED] = Some(<<84, 114, 117, 101>>)
    /\ ~htmx.v.boosted
    /\ ~htmx.v.history_restore_request

\* continuation byte of UTF-8
IsCont(b) == b >= 128 /\ b <= 191

\* std::str::from_utf8 would accept the bytes
RECURSIVE IsValidUtf8(_)
IsValidUtf8(bytes) ==
    IF bytes = <<>> THEN TRUE
    ELSE LET b == bytes[1]
             n == Len(bytes)
         IN  CASE b < 128 -> IsValidUtf8(Tail(bytes))
               [] b >= 194 /\ b <= 223 ->
                    /\ n >= 2 /\ IsCont(bytes[2])
                    /\ IsValidUtf8(SubSeq(bytes, 3, n))
               [] b >= 224 /\ b <= 239 ->
                    /\ n >= 3 /\ IsCont(bytes[2]) /\ IsCont(bytes[3])
                    /\ (b = 224 => bytes[2] >= 160)
                    /\ (b = 237 => bytes[2] <= 159)
                    /\ IsValidUtf8(SubSeq(bytes, 4, n))
               [] b >= 240 /\ b <= 244 ->
                    /\ n >= 4 /\ IsCont(bytes[2]) /\ IsCont(bytes[3])
                    /\ IsCont(bytes[4])
                    /\ (b = 240 => bytes[2] >= 144)
                    /\ (b = 244 => bytes[2] <= 143)
                    /\ IsValidUtf8(SubSeq(bytes, 5, n))
               [] OTHER -> FALSE

\* every byte is a printable ASCII character, a space or a tab
IsPrintableAscii(bytes) ==
    \A i \in 1..Len(bytes) : bytes[i] \in (32..126) \cup {9}

(* C10 as stated: each string accessor returns Some(value) if and only if  *)
(* its header is present and its bytes are valid UTF-8, the value being    *)
(* the header text; so valid UTF-8 that is not ASCII comes back as Some.   *)
C10_SomeIffValidUtf8 ==
    htmx.some =>
        \A h \in StringHeaders :
            Accessor(h) = IF req[h].some /\ IsValidUtf8(req[h].v)
                          THEN Some(req[h].v) ELSE NoBytes

(* C10 as amended: each string accessor returns Some(value) if and only if *)
(* its header is present and every byte of it is printable ASCII, a space  *)
(* or a tab, and then the value is the header text exactly (no trimming,   *)
(* no case change); otherwise, also for valid UTF-8 that is not ASCII, it  *)
(* returns None.                                                           *)
C10_SomeIffPrintableAscii ==
    htmx.some =>
        \A h \in StringHeaders :
            Accessor(h) = IF req[h].some /\ IsPrintableAscii(req[h].v)
                          THEN Some(req[h].v) ELSE NoBytes

\* hx-prompt: "é" in UTF-8 is dropped, hx-target: " a " comes back untrimmed
C10_Witness ==
    /\ pc = "handler"
    /\ req[HX_PROMPT] = Some(<<195, 169>>)
    /\ prompt = NoBytes
    /\ req[HX_TARGET] = Some(<<32, 97, 32>>)
    /\ target = Some(<<32, 97, 32>>)
    /\ current_url = NoBytes

---------------------------------------------------------------------------
BoolHeaders == {HX_REQUEST, HX_BOOSTED, HX_HISTORY_RESTORE_REQUEST}

\* the public flag of an Htmx that belongs to a request header
FlagOf(h, header_name) ==
    CASE header_name = HX_REQUEST -> h.is_htmx
      [] header_name = HX_BOOSTED -> h.boosted
      [] header_name = HX_HISTORY_RESTORE_REQUEST -> h.history_restore_request

\* the header is present and its bytes are no UTF-8 text
Undecodable(header) == header.some /\ ~IsValidUtf8(header.v)

(* C11: whatever of the eight htmx request headers is present, absent or  *)
(* undecodable, the snapshot is built and every extraction returns Ok; a   *)
(* flag whose header is undecodable is false, a string whose header is     *)
(* undecodable is None, in the stored Htmx and through every extracted     *)
(* handle; the request fails only when the wrapped service failed and      *)
(* otherwise completes with the handler's success response.                *)
C11_SnapshotNeverFails ==
    /\ pc \in {"new", "handler", "done", "failed"}
    /\ pc # "new" =>
          /\ htmx.some
          /\ \A i \in 1..Len(handles) : handles[i].ok
          /\ \A h \in BoolHeaders :
                Undecodable(req[h]) =>
                    /\ FlagOf(htmx.v, h) = FALSE
                    /\ \A i \in 1..Len(handles) : FlagOf(handles[i].v, h) = FALSE
          /\ \A h \in StringHeaders :
                Undecodable(req[h]) =>
                    /\ Accessor(h) = NoBytes
                    /\ \A i \in 1..Len(handles) :
                          get_string_header(cell_of(handles[i].v), h) = NoBytes
    /\ pc = "failed" => svc_result.some /\ ~svc_result.v.ok
    /\ pc = "done" =>
          /\ call_result.some /\ call_result.v.ok
          /\ call_result.v.status = 200

\* hx-request and hx-prompt carry the bytes FF FF, the handler extracted Htmx
\* twice and the request completed
C11_Witness ==
    /\ pc = "done"
    /\ req[HX_REQUEST] = Some(<<255, 255>>)
    /\ req[HX_PROMPT] = Some(<<255, 255>>)
    /\ Len(handles) = 2
    /\ \A i \in 1..2 : handles[i].ok /\ ~handles[i].v.is_htmx
    /\ prompt = NoBytes
    /\ call_result = Some(Ok(200))

---------------------------------------------------------------------------
\* the entry of an IndexMap under a key, none if the key is absent
Entry(map, key) == IF contains_key(map, key) THEN Some(get(map, key)) ELSE NoText

HasRawNewline(t) == \E i \in 1..Len(t) : t[i] = "\n"

(* C12: an entry of the flat map whose value holds a raw newline is skipped *)
(* with a warning and its header stays as the handler left it; every other *)
(* entry of the flat map is on the response with its value, the trigger    *)
(* header of every phase with events is written, and call returns Ok with  *)
(* the status of the handler's response.                                   *)
C12_BadValueSkippedRestWritten ==
    pc = "done" =>
        /\ \A k \in ResponseHeaders :
              LET e == Entry(inner.response_headers, k)
              IN  e.some =>
                    IF HasRawNewline(e.v)
                    THEN k \in warned /\ res[k] = handler_res[k]
                    ELSE k \notin warned /\ res[k] = e
        /\ \A p \in Phases :
              Called(p) => res[HeaderOf(p)] = Some(JoinWithCommas(FirstOrder(hist[p])))
        /\ call_result.some /\ call_result.v.ok
        /\ svc_result.some /\ svc_result.v.ok
        /\ call_result.v.status = svc_result.v.status

\* redirect with a newline, then push_url and an event: hx-redirect is
\* skipped with a warning, hx-push-url and hx-trigger are written, 404 stays
C12_Witness ==
    /\ pc = "done"
    /\ sets = <<SetCall("redirect", newline_text), SetCall("push_url", items)>>
    /\ Called("Standard")
    /\ warned = {HX_REDIRECT}
    /\ res[HX_REDIRECT] = NoText
    /\ res[HX_PUSH_URL] = Some(items)
    /\ res[HX_TRIGGER] = Some(event1)
    /\ call_result = Some(Ok(404))

\* the step wrote `value` under `header_name` in the flat map and changed
\* nothing else of the accumulator
SetsOnly(header_name, value) ==
    /\ Entry(inner.response_headers, header_name)' = Some(value)
    /\ \A k \in ResponseHeaders \ {header_name} :
          Entry(inner.response_headers, k)' = Entry(inner.response_headers, k)
    /\ \A i \in 1..Len(inner.response_headers)' :
          inner.response_headers'[i].k \in ResponseHeaders
    /\ \A p \in Phases :
          /\ get_triggers(p)' = get_triggers(p)
          /\ is_simple_trigger(p)' = is_simple_trigger(p)
    /\ inner.simple_trigger' = inner.simple_trigger
    /\ inner.request_headers' = inner.request_headers

(* C13: each header-setting call writes one entry of the flat map, under   *)
(* its fixed name and with the value given (refresh: the text true), and   *)
(* leaves the other flat entries, the three event maps and the three flags *)
(* unchanged; a handler that only calls redirect("/items") gets hx-redirect: *)
(* /items and no other htmx response header.                               *)
C13_SetterWritesOneEntry ==
    /\ []((pc = "done" /\ sets = <<SetCall("redirect", items)>>
              /\ \A p \in Phases : ~Called(p)) =>
            res = [handler_res EXCEPT ![HX_REDIRECT] = Some(items)])
    /\ [][/\ \A path \in HeaderTexts :
              /\ redirect(path) => SetsOnly(HX_REDIRECT, path)
              /\ redirect_with_swap(path) => SetsOnly(HX_LOCATION, path)
              /\ push_url(path) => SetsOnly(HX_PUSH_URL, path)
              /\ replace_url(path) => SetsOnly(HX_REPLACE_URL, path)
              /\ retarget(path) => SetsOnly(HX_RETARGET, path)
              /\ reselect(path) => SetsOnly(HX_RESELECT, path)
          /\ refresh => SetsOnly(HX_REFRESH, <<"t", "r", "u", "e">>)]_vars

\* the handler called redirect("/items") and nothing else
C13_Witness ==
    /\ pc = "done"
    /\ sets = <<SetCall("redirect", items)>>
    /\ \A p \in Phases : ~Called(p)
    /\ res = [NoResponseHeaders EXCEPT ![HX_REDIRECT] = Some(items)]

\* the last call of the method `op` the handler made, if any
LastSet(op) ==
    LET made == {i \in 1..Len(sets) : sets[i].op = op}
    IN  IF made = {} THEN None(SetCall(op, <<>>))
        ELSE Some(sets[CHOOSE i \in made : \A j \in made : j <= i])

\* the documented string of each variant
SwapStrings ==
    [InnerHtml |-> <<"i", "n", "n", "e", "r", "H", "T", "M", "L">>,
     OuterHtml |-> <<"o", "u", "t", "e", "r", "H", "T", "M", "L">>,
     BeforeBegin |-> <<"b", "e", "f", "o", "r", "e", "b", "e", "g", "i", "n">>,
     AfterBegin |-> <<"a", "f", "t", "e", "r", "b", "e", "g", "i", "n">>,
     BeforeEnd |-> <<"b", "e", "f", "o", "r", "e", "e", "n", "d">>,
     AfterEnd |-> <<"a", "f", "t", "e", "r", "e", "n", "d">>,
     Delete |-> <<"d", "e", "l", "e", "t", "e">>,
     None |-> <<"n", "o", "n", "e">>]

(* C14: reswap(s) writes hx-reswap with the documented string of s, for    *)
(* each of the eight variants; the strings of two variants differ; the     *)
(* swap member of an HxLocation carries the same string, and the response  *)
(* has the string of the last call.                                        *)
C14_SwapStrings ==
    /\ [](/\ DOMAIN SwapStrings = SwapTypes
          /\ \A a, b \in SwapTypes :
                SwapType_to_string(a) = SwapType_to_string(b) => a = b
          /\ (pc = "done" /\ LastSet("reswap").some) =>
                res[HX_RESWAP] = Some(SwapStrings[LastSet("reswap").v.value[1]])
          /\ (pc = "done" /\ LastSet("redirect_with_location").some) =>
                /\ res[HX_LOCATION].some
                /\ LET parsed == from_str(res[HX_LOCATION].v)
                       given == LastSet("redirect_with_location").v.location
                   IN  /\ parsed.ok
                       /\ index(parsed.v, key_swap) = JString(given.swap.v)
                       /\ \E swap_type \in SwapTypes :
                             given.swap.v = SwapStrings[swap_type])
    /\ [][\A swap_type \in SwapTypes :
            /\ reswap(swap_type) =>
                  SetsOnly(HX_RESWAP, SwapStrings[swap_type])
            /\ redirect_with_location(swap_location(swap_type)) =>
                  /\ swap_location(swap_type).swap =
                        Some(SwapStrings[swap_type])
                  /\ Entry(inner.response_headers, HX_LOCATION)'.some
                  /\ index(from_str(Entry(inner.response_headers,
                                          HX_LOCATION)'.v).v, key_swap) =
                        JString(SwapStrings[swap_type])]_vars

\* the handler called reswap(InnerHtml) and redirected to a location with
\* the swap OuterHtml
C14_Witness ==
    /\ pc = "done"
    /\ LastSet("reswap").some
    /\ LastSet("reswap").v.value = <<"InnerHtml">>
    /\ res[HX_RESWAP] = Some(<<"i", "n", "n", "e", "r", "H", "T", "M", "L">>)
    /\ LastSet("redirect_with_location").some
    /\ LastSet("redirect_with_location").v.location = swap_location("OuterHtml")
    /\ index(from_str(res[HX_LOCATION].v).v, key_swap) =
          JString(<<"o", "u", "t", "e", "r", "H", "T", "M", "L">>)

\* the member of an object under a name, if there is one
Member(val, key) ==
    IF contains_key(val.m, key) THEN Some(get(val.m, key)) ELSE NoValue

\* the documented member name of each optional text field
TextFieldNames ==
    [target |-> <<"t", "a", "r", "g", "e", "t">>,
     source |-> <<"s", "o", "u", "r", "c", "e">>,
     event |-> <<"e", "v", "e", "n", "t">>,
     swap |-> <<"s", "w", "a", "p">>,
     handler |-> <<"h", "a", "n", "d", "l", "e", "r">>,
     select |-> <<"s", "e", "l", "e", "c", "t">>,
     replace |-> <<"r", "e", "p", "l", "a", "c", "e">>]

\* the documented member name of each optional field holding a JSON value
ValueFieldNames ==
    [values |-> <<"v", "a", "l", "u", "e", "s">>,
     push |-> <<"p", "u", "s", "h">>]

LocationMemberNames ==
    {<<"p", "a", "t", "h">>, <<"h", "e", "a", "d", "e", "r", "s">>}
    \cup {TextFieldNames[f] : f \in DOMAIN TextFieldNames}
    \cup {ValueFieldNames[f] : f \in DOMAIN ValueFieldNames}

(* C15: the hx-location header of a response whose handler called         *)
(* redirect_with_location is a JSON object with the member path; it has    *)
(* the member of an optional field exactly when the field was set on the   *)
(* builder (headers: when a header was added), with the value given, and   *)
(* no other member.                                                        *)
C15_LocationObject ==
    (pc = "done" /\ LastSet("redirect_with_location").some) =>
        /\ res[HX_LOCATION].some
        /\ LET given == LastSet("redirect_with_location").v.location
               parsed == from_str(res[HX_LOCATION].v)
               object == parsed.v
           IN  /\ parsed.ok
               /\ object.t = "obj"
               /\ \A i, j \in 1..Len(object.m) :
                     object.m[i].k = object.m[j].k => i = j
               /\ \A i \in 1..Len(object.m) :
                     object.m[i].k \in LocationMemberNames
               /\ Member(object, <<"p", "a", "t", "h">>) = Some(JString(given.path))
               /\ \A f \in DOMAIN TextFieldNames :
                     Member(object, TextFieldNames[f]) =
                        IF given[f].some THEN Some(JString(given[f].v))
                        ELSE NoValue
               /\ \A f \in DOMAIN ValueFieldNames :
                     Member(object, ValueFieldNames[f]) = given[f]
               /\ Member(object, <<"h", "e", "a", "d", "e", "r", "s">>) =
                     IF given.headers = <<>> THEN NoValue
                     ELSE Some(JObject([i \in 1..Len(given.headers) |->
                             [k |-> given.headers[i].k,
                              v |-> JString(given.headers[i].v)]]))

\* the handler redirected to a location with headers added and the push
\* disabled, and no other optional field set
C15_Witness ==
    /\ pc = "done"
    /\ LastSet("redirect_with_location").some
    /\ LET given == LastSet("redirect_with_location").v.location
           object == from_str(res[HX_LOCATION].v).v
       IN  /\ given.headers # <<>>
           /\ given.push = Some(JBool(FALSE))
           /\ ~given.target.some /\ ~given.replace.some /\ ~given.values.some
           /\ Keys(object.m) = <<key_path, key_headers, key_push>>
           /\ Keys(Member(object, key_headers).v.m) = <<accept, x_test>>

\* the text `pat` occurs in the header written for the phase
InHeader(p, pat) ==
    res[HeaderOf(p)].some /\ IndexFrom(res[HeaderOf(p)].v, pat, 1) > 0

(* C16: a trigger_event call with no trigger type changes the accumulator  *)
(* as the same call with the Standard type does: the event goes to the     *)
(* Standard map and the two other maps stay as they are; in the response   *)
(* the event is in hx-trigger and in neither hx-trigger-after-settle nor   *)
(* hx-trigger-after-swap.                                                  *)
C16_NoneIsStandard ==
    /\ [](/\ \A payload \in ExamplePayloads :
                trigger_event_inner(inner, event1, payload, NoType) =
                trigger_event_inner(inner, event1, payload, Some("Standard"))
          /\ pc = "done" =>
                /\ contains_key(inner.standard_triggers, event1) =>
                      InHeader("Standard", event1)
                /\ ~InHeader("AfterSettle", event1)
                /\ ~InHeader("AfterSwap", event1))
    /\ [][\A payload \in ExamplePayloads :
            trigger_event(event1, payload, NoType) =>
                /\ contains_key(inner.standard_triggers', event1)
                /\ get(inner.standard_triggers', event1) = payload
                /\ inner.after_settle_triggers' = inner.after_settle_triggers
                /\ inner.after_swap_triggers' = inner.after_swap_triggers
                /\ payload.some => ~inner.simple_trigger'["Standard"]
                /\ \A p \in DOMAIN inner.simple_trigger' \ {"Standard"} :
                      /\ p \in DOMAIN inner.simple_trigger
                      /\ inner.simple_trigger'[p] = inner.simple_trigger[p]]_vars

\* the handler triggered event1 with no type and event2 after settle; event1
\* left in hx-trigger and event2 in hx-trigger-after-settle
C16_Witness ==
    /\ pc = "done"
    /\ Keys(inner.standard_triggers) = <<event1>>
    /\ Keys(inner.after_settle_triggers) = <<event2>>
    /\ res[HX_TRIGGER] = Some(event1)
    /\ res[HX_TRIGGER_AFTER_SETTLE] = Some(event2)
    /\ res[HX_TRIGGER_AFTER_SWAP] = NoText

\* the five string accessors of an Htmx, read through its Rc
StringsOf(h) ==
    [header_name \in StringHeaders |->
        get_string_header(cell_of(h), header_name)]

\* the three public flags of an Htmx
FlagsOf(h) ==
    [is_htmx |-> h.is_htmx, boosted |-> h.boosted,
     history_restore_request |-> h.history_restore_request]

(* C17: every Htmx the extractor returned within a request the middleware  *)
(* wrapped points to the accumulator of the request extensions; all of     *)
(* them, and the Htmx of the extensions, have the same three flags and the *)
(* same string values; in the response every event triggered through any   *)
(* of them is in hx-trigger and a redirect made through any of them is     *)
(* hx-redirect.                                                            *)
C17_HandlesShareAccumulator ==
    /\ \A i \in 1..Len(handles) :
          /\ handles[i].ok
          /\ handles[i].v.inner = 0
          /\ htmx.some /\ FlagsOf(handles[i].v) = htmx.v
          /\ FlagsOf(handles[i].v) = from_inner(inner)
          /\ \A j \in 1..Len(handles) :
                /\ FlagsOf(handles[i].v) = FlagsOf(handles[j].v)
                /\ StringsOf(handles[i].v) = StringsOf(handles[j].v)
    /\ pc = "done" =>
          /\ \A i \in 1..Len(hist["Standard"]) :
                InHeader("Standard", hist["Standard"][i].name)
          /\ sets # <<>> => res[HX_REDIRECT] = Some(items)

\* the handler took two Htmx arguments, triggered event1 through the first
\* and event2 through the second, and redirected
C17_Witness ==
    /\ pc = "done"
    /\ Len(handles) >= 2
    /\ handles[1].v.is_htmx /\ handles[2].v.is_htmx
    /\ StringsOf(handles[2].v)[HX_TARGET] = Some(list_bytes)
    /\ res[HX_TRIGGER] = Some(event1 \o <<",">> \o event2)
    /\ res[HX_REDIRECT] = Some(items)

\* the response the events and the redirect of one request's own handler
\* call for
OwnResponse(fl) ==
    [NoResponseHeaders EXCEPT
        ![HX_TRIGGER] = IF fl.log = <<>> THEN NoText
                        ELSE Some(JoinWithCommas(FirstOrder(fl.log))),
        ![HX_REDIRECT] = fl.path]

(* C18: the requests in flight have each a cell of their own, created      *)
(* empty; whatever the interleaving, the cell of a request holds the       *)
(* snapshot of that request's headers and the events and the redirect of   *)
(* that request's handler only, and its response carries exactly those.    *)
C18_RequestsAreIsolated ==
    \A f \in 1..Len(flight) :
        LET fl == flight[f]
            cell == heap[fl.ext.inner]
        IN  /\ \A g \in 1..Len(flight) :
                  flight[g].ext.inner = fl.ext.inner => g = f
            /\ fl.ext.is_htmx = IsLiteralTrue(fl.req[HX_REQUEST])
            /\ get_bool_header(cell, HX_REQUEST) =
                  IsLiteralTrue(fl.req[HX_REQUEST])
            /\ get_string_header(cell, HX_TARGET) = fl.req[HX_TARGET]
            /\ Keys(cell.standard_triggers) = FirstOrder(fl.log)
            /\ cell.after_settle_triggers = <<>>
            /\ cell.after_swap_triggers = <<>>
            /\ Entry(cell.response_headers, HX_REDIRECT) = fl.path
            /\ Len(cell.response_headers) <= 1
            /\ fl.res = IF fl.pc = "done" THEN OwnResponse(fl)
                        ELSE NoResponseHeaders

\* two requests in flight: a plain one whose handler triggered event1 and
\* an htmx request whose handler triggered event2 and redirected
\* meanwhile; both answered, each with its own headers
C18_Witness ==
    /\ Len(flight) >= 2
    /\ flight[1].pc = "done" /\ flight[2].pc = "done"
    /\ ~flight[1].ext.is_htmx /\ flight[2].ext.is_htmx
    /\ flight[1].res = [NoResponseHeaders EXCEPT ![HX_TRIGGER] = Some(event1)]
    /\ flight[2].res = [NoResponseHeaders EXCEPT ![HX_TRIGGER] = Some(event2),
                                                 ![HX_REDIRECT] = Some(items)]

\* the header each header-setting method writes
HeaderOfCall ==
    [redirect |-> HX_REDIRECT, redirect_with_swap |-> HX_LOCATION,
     refresh |-> HX_REFRESH, push_url |-> HX_PUSH_URL,
     replace_url |-> HX_REPLACE_URL, retarget |-> HX_RETARGET,
     reselect |-> HX_RESELECT]

\* the value a logged call gave for its header
ValueOfCall(made) ==
    IF made.op = "refresh" THEN <<"t", "r", "u", "e">> ELSE made.value

\* the i-th call is the last one the handler made for its header
IsLastForHeader(i) ==
    \A j \in (i + 1)..Len(sets) :
        HeaderOfCall[sets[j].op] # HeaderOfCall[sets[i].op]

(* C19: the response carries no htmx header while the handler runs; the    *)
(* step in which the service returns is the only one that writes headers,  *)
(* and nothing changes after it; in the response, the trigger header of    *)
(* each phase lists the events the handler triggered, and each header the  *)
(* handler set carries the value of the last call for it (a value with a   *)
(* raw newline is skipped with a warning), for every order of the calls.   *)
C19_ResponseIsFinalState ==
    /\ [](/\ pc \in {"new", "handler"} => res = NoResponseHeaders
          /\ pc = "done" =>
                /\ \A p \in Phases :
                      res[HeaderOf(p)] =
                         IF Called(p)
                         THEN Some(JoinWithCommas(FirstOrder(hist[p])))
                         ELSE NoText
                /\ \A i \in 1..Len(sets) :
                      IsLastForHeader(i) =>
                         LET header_name == HeaderOfCall[sets[i].op]
                             value == ValueOfCall(sets[i])
                         IN  IF HasRawNewline(value)
                             THEN /\ res[header_name] = NoText
                                  /\ header_name \in warned
                             ELSE res[header_name] = Some(value)
                /\ \A header_name \in ResponseHeaders :
                      res[header_name].some =>
                         \/ \E p \in Phases :
                               Called(p) /\ header_name = HeaderOf(p)
                         \/ \E i \in 1..Len(sets) :
                               header_name = HeaderOfCall[sets[i].op])
    /\ [][/\ res' # res => (pc = "handler" /\ pc' = "done")
          /\ pc = "done" => (inner' = inner /\ res' = res /\ pc' = pc)]_vars

\* the handler triggered event2, set the target and asked for a refresh;
\* the response has the event, the target and the refresh
C19_Witness ==
    /\ pc = "done"
    /\ hist["Standard"] = <<[name |-> event2, payload |-> NoPayload]>>
    /\ sets = <<SetCall("retarget", items), SetCall("refresh", <<>>)>>
    /\ res = [NoResponseHeaders EXCEPT ![HX_TRIGGER] = Some(event2),
                                       ![HX_RETARGET] = Some(items),
                                       ![HX_REFRESH] = Some(<<"t", "r", "u", "e">>)]

(* C20: no call of trigger_event or of a header-setting method panics,     *)
(* through any Htmx of the request, in any order, with an empty name or a  *)
(* value no header can carry; the cell is free again after every call;     *)
(* the name, the payload and the value are stored as given; when the       *)
(* service returned a response the middleware returns it, with its status, *)
(* and an error is only ever the service's own.                            *)
C20_NoCallFails ==
    /\ [](/\ pc # "panicked"
          /\ borrow = 0
          /\ \A i \in 1..Len(handles) : handles[i].ok
          /\ call_result = svc_result
          /\ (svc_result.some /\ svc_result.v.ok) <=> pc = "done"
          /\ (svc_result.some /\ ~svc_result.v.ok) <=> pc = "failed")
    /\ [][/\ \A name \in CallNames, payload \in CallPayloads,
                trigger_type \in CallTypes :
                trigger_event(name, payload, trigger_type) =>
                   LET p == IF trigger_type.some THEN trigger_type.v
                            ELSE "Standard"
                   IN  /\ contains_key(get_triggers(p)', name)
                       /\ get(get_triggers(p)', name) = payload
                       /\ borrow' = 0 /\ pc' = "handler"
          /\ \A value \in CallValues :
                /\ redirect(value) =>
                      /\ Entry(inner.response_headers, HX_REDIRECT)' = Some(value)
                      /\ borrow' = 0 /\ pc' = "handler"
                /\ retarget(value) =>
                      /\ Entry(inner.response_headers, HX_RETARGET)' = Some(value)
                      /\ borrow' = 0 /\ pc' = "handler"]_vars

\* the handler triggered an event with the empty name through its second
\* Htmx and redirected to a value with a newline; the response came back
\* with the handler's status
C20_Witness ==
    /\ pc = "done"
    /\ Len(handles) >= 2
    /\ ncalls = 2
    /\ Keys(inner.standard_triggers) = <<empty_text>>
    /\ Entry(inner.response_headers, HX_REDIRECT) = Some(newline_text)
    /\ call_result = Some(Ok(404))
    /\ borrow = 0

\* the eight names of the flat map, as documented
FlatNames ==
    {"hx-redirect", "hx-location", "hx-refresh", "hx-push-url",
     "hx-replace-url", "hx-reswap", "hx-retarget", "hx-reselect"}

\* the three trigger header names, as documented
TriggerNames == {"hx-trigger", "hx-trigger-after-settle", "hx-trigger-after-swap"}

(* C21: every key of the flat map is one of the eight flat names, none of  *)
(* which is a trigger header name; in the response a trigger header has    *)
(* the text of its phase, or the handler's value when the phase has no     *)
(* events, and a flat name has the flat map's value, or the handler's      *)
(* value when the flat map has none.                                       *)
C21_FlatAndTriggerNamesDisjoint ==
    /\ FlatNames \cap TriggerNames = {}
    /\ FlatNames \cup TriggerNames = ResponseHeaders
    /\ {HeaderOf(p) : p \in Phases} = TriggerNames
    /\ \A i \in 1..Len(inner.response_headers) :
          inner.response_headers[i].k \in FlatNames
    /\ pc = "done" =>
          /\ warned = {}
          /\ \A p \in Phases :
                res[HeaderOf(p)] =
                   IF ~Called(p) THEN handler_res[HeaderOf(p)]
                   ELSE IF EverPayload(p)
                   THEN Some(trigger_json(trigger_strings(get_triggers(p))))
                   ELSE Some(JoinWithCommas(FirstOrder(hist[p])))
          /\ \A header_name \in FlatNames :
                res[header_name] =
                   IF contains_key(inner.response_headers, header_name)
                   THEN Some(get(inner.response_headers, header_name))
                   ELSE handler_res[header_name]

\* the handler triggered event1 and set the target: hx-trigger has the
\* event, hx-retarget the target
C21_Witness ==
    /\ pc = "done"
    /\ Keys(inner.response_headers) = <<HX_RETARGET>>
    /\ Keys(inner.standard_triggers) = <<event1>>
    /\ res = [NoResponseHeaders EXCEPT ![HX_TRIGGER] = Some(event1),
                                       ![HX_RETARGET] = Some(items)]

\* what an accessor returns for the header as the request carried it
Decoded(header) ==
    IF header.some /\ IsPrintableAscii(header.v) THEN header ELSE NoBytes

(* C22: from the moment the middleware built the snapshot, the three flags *)
(* and the five string accessors have the values of the request's own      *)
(* headers, in every state of the handler and after it; no call of the     *)
(* handler changes the request headers of the cell, and trigger() keeps    *)
(* returning the inbound hx-trigger while outbound events are recorded.    *)
C22_SnapshotIsImmutable ==
    /\ [](pc \in {"handler", "done", "failed"} =>
            /\ htmx = Some([is_htmx |-> IsLiteralTrue(req[HX_REQUEST]),
                            boosted |-> IsLiteralTrue(req[HX_BOOSTED]),
                            history_restore_request |->
                                IsLiteralTrue(req[HX_HISTORY_RESTORE_REQUEST])])
            /\ \A h \in StringHeaders : Accessor(h) = Decoded(req[h])
            /\ \A h \in BoolHeaders :
                  get_bool_header(inner, h) = IsLiteralTrue(req[h]))
    /\ [][pc = "handler" =>
            /\ inner.request_headers' = inner.request_headers
            /\ htmx' = htmx
            /\ req' = req
            /\ trigger' = trigger]_vars

\* a request with the inbound hx-trigger "btn"; the handler triggered two
\* events and the response has them in hx-trigger; trigger() is still "btn"
C22_Witness ==
    /\ pc = "done"
    /\ req[HX_TRIGGER_REQ] = Some(btn_bytes)
    /\ Len(hist["Standard"]) = 2
    /\ res[HX_TRIGGER].some
    /\ trigger = Some(btn_bytes)
    /\ htmx.v.is_htmx

\* the text the middleware builds for the phase holds a raw newline: in an
\* event name, or, in JSON mode, in a text payload
PhaseHasRawNewline(p) ==
    \E i \in 1..Len(get_triggers(p)) :
        LET entry == get_triggers(p)[i]
        IN  \/ HasRawNewline(entry.k)
            \/ /\ ~is_simple_trigger(p)
               /\ entry.v.some
               /\ as_json_value(entry.v.v).t = "str"
               /\ HasRawNewline(as_json_value(entry.v.v).s)

(* C23: in the response, the header of a phase whose text holds a raw      *)
(* newline is absent and a warning names it; the header of every other     *)
(* phase with events is written, the flat map's hx-redirect is written,    *)
(* and call returns Ok with the status of the handler's response.          *)
C23_OnlyBadPhaseSkipped ==
    pc = "done" =>
        /\ \A p \in Phases :
              IF Called(p) /\ PhaseHasRawNewline(p)
              THEN HeaderOf(p) \in warned /\ res[HeaderOf(p)] = NoText
              ELSE /\ HeaderOf(p) \notin warned
                   /\ res[HeaderOf(p)].some = Called(p)
                   /\ Called(p) =>
                         \A i \in 1..Len(hist[p]) : InHeader(p, hist[p][i].name)
        /\ res[HX_REDIRECT] = Entry(inner.response_headers, HX_REDIRECT)
        /\ HX_REDIRECT \notin warned
        /\ call_result.some /\ call_result.v.ok
        /\ call_result = svc_result

\* an event with a newline in its name in the Standard phase, event1 after
\* settle and a redirect: hx-trigger is skipped with a warning, the two
\* other headers are written, the 404 of the handler is returned
C23_Witness ==
    /\ pc = "done"
    /\ Keys(inner.standard_triggers) = <<newline_text>>
    /\ Keys(inner.after_settle_triggers) = <<event1>>
    /\ warned = {HX_TRIGGER}
    /\ res = [NoResponseHeaders EXCEPT ![HX_TRIGGER_AFTER_SETTLE] = Some(event1),
                                       ![HX_REDIRECT] = Some(items)]
    /\ call_result = Some(Ok(404))

(* C24: the header of a phase serialized in JSON mode parses as a JSON     *)
(* object whose keys are the names of the phase's events, in the order of  *)
(* their first call, whatever characters the names hold.                   *)
C24_JsonModeIsWellFormed ==
    \A p \in Phases :
        (Written(p) /\ Called(p) /\ ~is_simple_trigger(p)) =>
            /\ res[HeaderOf(p)].some
            /\ LET parsed == from_str(res[HeaderOf(p)].v)
               IN  /\ parsed.ok
                   /\ parsed.v.t = "obj"
                   /\ Keys(parsed.v.m) = FirstOrder(hist[p])

\* the header a logged header-setting call writes
NameOfCall(made) ==
    IF made.op = "reswap" THEN HX_RESWAP
    ELSE IF made.op = "redirect_with_location" THEN HX_LOCATION
    ELSE HeaderOfCall[made.op]

\* the text a logged header-setting call gave for its header
TextOfCall(made) ==
    IF made.op = "reswap" THEN SwapType_to_string(made.value[1])
    ELSE IF made.op = "redirect_with_location"
         THEN into_header_value(made.location)
    ELSE ValueOfCall(made)

\* the calls among the first n logged that wrote header_name
CallsFor(header_name, n) ==
    {i \in 1..n : NameOfCall(sets[i]) = header_name}

Max(S) == CHOOSE x \in S : \A y \in S : y <= x

(* C25: the flat map has at most one entry per header name; a setter call  *)
(* for a name the map has keeps the number of entries and the place of the *)
(* entry and replaces its value, and leaves every other entry as it was;   *)
(* the map holds for each name the value of the last call for it; when     *)
(* redirect_with_swap and redirect_with_location were both called, the     *)
(* response has one hx-location, the bare path if redirect_with_swap was   *)
(* the later call and the JSON object if redirect_with_location was.       *)
C25_FlatMapLastWriteWins ==
    /\ [](LET map == inner.response_headers
          IN  /\ \A i, j \in 1..Len(map) : map[i].k = map[j].k => i = j
              /\ \A header_name \in ResponseHeaders :
                    LET calls == CallsFor(header_name, Len(sets))
                    IN  Entry(map, header_name) =
                           IF calls = {} THEN NoText
                           ELSE Some(TextOfCall(sets[Max(calls)]))
              /\ pc = "done" =>
                    LET calls == CallsFor(HX_LOCATION, Len(sets))
                    IN  calls # {} =>
                           LET last == sets[Max(calls)]
                           IN  IF last.op = "redirect_with_swap"
                               THEN /\ res[HX_LOCATION] = Some(last.value)
                                    /\ ~from_str(last.value).ok
                               ELSE /\ res[HX_LOCATION] =
                                          Some(into_header_value(last.location))
                                    /\ from_str(res[HX_LOCATION].v).ok
                                    /\ from_str(res[HX_LOCATION].v).v.t = "obj")
    /\ [][sets' # sets =>
            LET map == inner.response_headers
                made == sets'[Len(sets')]
                header_name == NameOfCall(made)
            IN  /\ Len(inner'.response_headers) =
                       IF contains_key(map, header_name) THEN Len(map)
                       ELSE Len(map) + 1
                /\ \A i \in 1..Len(map) :
                      inner'.response_headers[i] =
                          IF map[i].k = header_name
                          THEN [k |-> header_name, v |-> TextOfCall(made)]
                          ELSE map[i]
                /\ get(inner'.response_headers, header_name) =
                       TextOfCall(made)]_vars

\* redirect_with_swap, then redirect_with_location: the JSON object
C25_Witness ==
    /\ pc = "done"
    /\ sets = <<SetCall("redirect_with_swap", items),
                LocationCall(HxLocation_new(items))>>
    /\ inner.response_headers =
           <<[k |-> HX_LOCATION, v |-> into_header_value(HxLocation_new(items))]>>
    /\ res[HX_LOCATION] = Some(into_header_value(HxLocation_new(items)))

\* redirect_with_location, then redirect_with_swap: the bare path
C25_WitnessBarePath ==
    /\ pc = "done"
    /\ sets = <<LocationCall(HxLocation_new(items)),
                SetCall("redirect_with_swap", items)>>
    /\ res[HX_LOCATION] = Some(items)

\* redirect twice with different paths: one entry, the second path
C25_WitnessSameSetter ==
    /\ pc = "done"
    /\ sets = <<SetCall("redirect", items), SetCall("redirect", history_path)>>
    /\ inner.response_headers = <<[k |-> HX_REDIRECT, v |-> history_path]>>
    /\ res[HX_REDIRECT] = Some(history_path)

\* the accumulator has something for header_name: an event of its phase or
\* a call of a setter that writes it
Recorded(header_name) ==
    \/ \E p \in Phases : HeaderOf(p) = header_name /\ Called(p)
    \/ CallsFor(header_name, Len(sets)) # {}

\* the handler's own value for header_name, which no accumulator value of
\* the model equals
HandlerValue == Some(<<"h">>)

(* C26: in the response the middleware returns, a header for which the     *)
(* accumulator recorded something has the accumulator's value, also when   *)
(* the handler had put its own value under that name; a header for which   *)
(* the accumulator recorded nothing is as the handler left it, present or  *)
(* absent; the step in which the service returns changes no other header.  *)
C26_MiddlewareOverwritesHandler ==
    /\ [](pc = "done" =>
            \A header_name \in ResponseHeaders :
                IF Recorded(header_name)
                THEN /\ res[header_name].some
                     /\ res[header_name] # HandlerValue
                     /\ \A p \in Phases :
                           HeaderOf(p) = header_name =>
                               LET parsed == from_str(res[header_name].v)
                               IN  IF EverPayload(p)
                                   THEN parsed.ok /\ Keys(parsed.v.m) =
                                                        FirstOrder(hist[p])
                                   ELSE res[header_name].v =
                                            JoinWithCommas(FirstOrder(hist[p]))
                     /\ CallsFor(header_name, Len(sets)) # {} =>
                           res[header_name].v = TextOfCall(
                               sets[Max(CallsFor(header_name, Len(sets)))])
                ELSE res[header_name] = handler_res[header_name])
    /\ [][\A hres \in HandlerResponses :
            respond(hres, 200) =>
                /\ handler_res' = hres
                /\ \A header_name \in ResponseHeaders :
                      res'[header_name] # hres[header_name] =>
                          Recorded(header_name)]_vars

\* the handler put hx-redirect on its response and called redirect: the
\* response has the path of the call
C26_Witness ==
    /\ pc = "done"
    /\ handler_res[HX_REDIRECT] = HandlerValue
    /\ sets = <<SetCall("redirect", items)>>
    /\ res = [NoResponseHeaders EXCEPT ![HX_REDIRECT] = Some(items)]

\* the handler put hx-trigger on its response and triggered event1
C26_WitnessTrigger ==
    /\ pc = "done"
    /\ handler_res[HX_TRIGGER] = HandlerValue
    /\ hist["Standard"] = <<[name |-> event1, payload |-> NoPayload]>>
    /\ res[HX_TRIGGER] = Some(event1)

\* the handler put hx-trigger on its response, triggered an event of
\* another phase and set the target: its hx-trigger is untouched
C26_WitnessUntouched ==
    /\ pc = "done"
    /\ handler_res[HX_TRIGGER] = HandlerValue
    /\ Called("AfterSwap") /\ ~Called("Standard")
    /\ sets = <<SetCall("retarget", items)>>
    /\ res[HX_TRIGGER] = HandlerValue
    /\ res[HX_RETARGET] = Some(items)

(* C27: when the wrapped service completes with an error, the middleware   *)
(* returns that error and no response: the step writes no header and logs  *)
(* no warning, whatever the handler had recorded, and nothing happens to   *)
(* the request afterwards, so what the accumulator holds is never read.    *)
C27_ServiceErrorIsReturned ==
    /\ [](pc = "failed" =>
            /\ svc_result = Some(Err(service_error))
            /\ call_result = svc_result
            /\ res = NoResponseHeaders
            /\ handler_res = NoResponseHeaders
            /\ warned = {})
    /\ [][fail => /\ call_result' = svc_result'
                  /\ ~call_result'.v.ok
                  /\ res' = res
                  /\ warned' = warned]_vars
    /\ [][pc = "failed" => vars' = vars]_vars

\* the handler triggered event1 and called redirect, then the service
\* failed: the error is returned, no header exists
C27_Witness ==
    /\ pc = "failed"
    /\ Keys(inner.standard_triggers) = <<event1>>
    /\ inner.response_headers = <<[k |-> HX_REDIRECT, v |-> items]>>
    /\ call_result = Some(Err(service_error))
    /\ res = NoResponseHeaders

(* C28: without the middleware the request extensions never hold an Htmx;  *)
(* every extraction builds a cell of its own from the request headers, so  *)
(* all the Htmx of a request have the flags and string values of the       *)
(* request and no two of them share a cell; an event or a header recorded  *)
(* through one changes no other cell; the response is the handler's own,   *)
(* whatever the cells hold.                                                *)
C28_ExtractorWithoutMiddleware ==
    /\ [](/\ htmx = NoHtmx
          /\ inner = EmptyInner
          /\ Len(cells) = Len(handles)
          /\ \A i \in 1..Len(handles) :
                /\ handles[i].ok
                /\ handles[i].v.inner = i
                /\ FlagsOf(handles[i].v) = from_inner(HtmxInner_new(req))
                /\ StringsOf(handles[i].v) =
                       [header_name \in StringHeaders |->
                           get_string_header(HtmxInner_new(req), header_name)]
                /\ cell_of(handles[i].v).request_headers =
                       HtmxInner_new(req).request_headers
          /\ res = handler_res
          /\ warned = {})
    /\ [][\A i \in 1..Len(handles) :
            /\ \A name \in Names :
                  trigger_event_on(handles[i].v.inner, name, NoPayload, NoType) =>
                      /\ contains_key(cells'[i].standard_triggers, name)
                      /\ \A j \in 1..Len(handles) : j # i => cells'[j] = cells[j]
            /\ set_response_header(handles[i].v.inner, HX_REDIRECT, items,
                                   SetCall("redirect", items)) =>
                  /\ contains_key(cells'[i].response_headers, HX_REDIRECT)
                  /\ \A j \in 1..Len(handles) : j # i => cells'[j] = cells[j]]_vars

\* two extractions in a request with hx-request and hx-target; event1
\* triggered and a redirect asked for through the first only: the second
\* has the same request values and an empty accumulator, and the response
\* has no header
C28_Witness ==
    /\ pc = "done"
    /\ Len(handles) = 2
    /\ handles[1].v.is_htmx /\ handles[2].v.is_htmx
    /\ StringsOf(handles[1].v)[HX_TARGET] = Some(list_bytes)
    /\ StringsOf(handles[2].v)[HX_TARGET] = Some(list_bytes)
    /\ Keys(cells[1].standard_triggers) = <<event1>>
    /\ Keys(cells[1].response_headers) = <<HX_REDIRECT>>
    /\ cells[2].standard_triggers = <<>>
    /\ cells[2].response_headers = <<>>
    /\ res = NoResponseHeaders

\* every key of `before` is at the same place in `after`
KeepsKeys(before, after) ==
    /\ Len(after) >= Len(before)
    /\ \A i \in 1..Len(before) : after[i].k = before[i].k

(* C29: in every step each of the three event maps and the flat map keeps  *)
(* the keys it has, at their places, so no map ever gets shorter, and a    *)
(* phase whose flag says JSON mode keeps saying so; a phase in JSON mode    *)
(* has at least one event in its map.                                      *)
C29_AccumulatorOnlyGrows ==
    /\ [](\A p \in Phases : ~is_simple_trigger(p) => get_triggers(p) # <<>>)
    /\ [][/\ \A p \in Phases :
                /\ KeepsKeys(get_triggers(p), get_triggers(p)')
                /\ ~is_simple_trigger(p) => ~is_simple_trigger(p)'
          /\ KeepsKeys(inner.response_headers, inner'.response_headers)]_vars

\* event1 with a payload, then event2 without, both AfterSwap: two keys,
\* the phase still in JSON mode
C29_Witness ==
    /\ pc = "done"
    /\ hist["AfterSwap"] = << [name |-> event1, payload |-> Some(text(deleted))],
                              [name |-> event2, payload |-> NoPayload] >>
    /\ Keys(get_triggers("AfterSwap")) = <<event1, event2>>
    /\ ~is_simple_trigger("AfterSwap")
    /\ is_simple_trigger("Standard")

\* the accumulator after a call, by the body of the method called
apply_op(in, op) ==
    IF op.kind = "event"
    THEN trigger_event_inner(in, op.name, op.payload, Some(op.phase))
    ELSE [in EXCEPT !.response_headers =
             insert(@, NameOfCall(op.made), TextOfCall(op.made))]

\* the response header a call is about
TargetOf(op) ==
    IF op.kind = "event" THEN HeaderOf(op.phase) ELSE NameOfCall(op.made)

\* the response the middleware makes of the handler's response hres when
\* the handler goes on with the calls a and then b
ResponseAfter(hres, a, b) ==
    serialize_inner([headers |-> hres, warned |-> {}],
                    apply_op(apply_op(inner, a), b))

(* C30: wherever the handler stands, two further calls about different     *)
(* response headers (events of different phases, setters of different      *)
(* names, an event and a setter) lead to the same response in either       *)
(* order, whatever the handler's own response carries; two different calls *)
(* about the same header, made first in a handler, lead to different       *)
(* responses in the two orders (key order of the phase, last value of the  *)
(* name). Each call changes the accumulator as its method's body does.     *)
C30_DifferentTargetsCommute ==
    /\ [](pc = "handler" =>
            \A a, b \in CommuteOps, hres \in HandlerResponses :
                /\ TargetOf(a) # TargetOf(b) =>
                      ResponseAfter(hres, a, b) = ResponseAfter(hres, b, a)
                /\ (TargetOf(a) = TargetOf(b) /\ a # b /\ ncalls = 0) =>
                      ResponseAfter(hres, a, b).headers[TargetOf(a)] #
                          ResponseAfter(hres, b, a).headers[TargetOf(a)])
    /\ [][\A op \in CommuteOps : Act(op) => inner' = apply_op(inner, op)]_vars

\* redirect, then retarget
C30_Witness ==
    /\ pc = "done"
    /\ sets = <<SetCall("redirect", items), SetCall("retarget", items)>>
    /\ Keys(inner.response_headers) = <<HX_REDIRECT, HX_RETARGET>>
    /\ res = [NoResponseHeaders EXCEPT ![HX_REDIRECT] = Some(items),
                                       ![HX_RETARGET] = Some(items)]

\* retarget, then redirect: the same response
C30_WitnessSwapped ==
    /\ pc = "done"
    /\ sets = <<SetCall("retarget", items), SetCall("redirect", items)>>
    /\ Keys(inner.response_headers) = <<HX_RETARGET, HX_REDIRECT>>
    /\ res = [NoResponseHeaders EXCEPT ![HX_REDIRECT] = Some(items),
                                       ![HX_RETARGET] = Some(items)]

\* the two events of the Standard phase in the two orders: the keys of the
\* header follow the order of the calls
C30_WitnessSamePhase ==
    /\ pc = "done"
    /\ FirstOrder(hist["Standard"]) = <<event2, event1>>
    /\ res[HX_TRIGGER].some
    /\ Keys(from_str(res[HX_TRIGGER].v).v.m) = <<event2, event1>>

=============================================================================
